---- MODULE Spec2Model ----
(***************************************************************************)
(* vanguard2: the iterative resolver core.                                 *)
(*                                                                         *)
(* Part I   AggregateClient (src/src/iterator/aggregate_client.rs): the    *)
(*          single-flight wrapper around the nameserver client.            *)
(* Part II  Iterator (src/src/iterator/iterator.rs, iter_event.rs,         *)
(*          delegation_point.rs): the event-driven state machine.          *)
(*                                                                         *)
(* Part V   Resolver::run (src/src/resolver.rs, msgbuf_pool.rs): the UDP   *)
(*          front end and its buffer pools.                                *)
(*                                                                         *)
(* Each part has its own variables and its own specification; a            *)
(* specification leaves the other part's variables at their initial value. *)
(***************************************************************************)
EXTENDS Integers, Sequences, FiniteSets, TLC

VARIABLES
    \* ---- Part I: AggregateClient ----
    inflight_queries,   \* HashMap<Inflightkey, Receiver>: key -> id of the channel
    otherInflight,      \* number of further distinct keys in the map (other callers)
    waiting_queries,    \* AtomicU64
    chan,               \* watch channels, one per leader: value, version, closed
    aggPc,              \* position of each caller's query() future
    aggReq,             \* the request of each call: question (name, typ) and target
    aggRx,              \* follower: the channel its cloned receiver listens to
    aggSeen,            \* follower: the version its receiver has observed
    aggResp,            \* leader: outcome of the underlying client.query
    aggResult,          \* what query() returned to the caller
    query_count,        \* underlying queries issued, per question
    \* ---- Part II: Iterator ----
    events,             \* the current IterEvent followed by its chain of base events
    cache,              \* MessageCache: positive and negative MessageLruCache
    now,                \* Instant::now(), in seconds
    iterPhase,          \* position of do_resolve: "idle", "run", "done" or "panic"
    final,              \* the Response returned by do_resolve, if any
    world,              \* the configuration of this run and what its nameservers reply
    round,              \* resolutions started so far
    sent,               \* upstream queries sent by the current resolution
    probe,              \* the latest upstream query: the counters of the querying
                        \* event, the host queried and the category of the reply
    referral_steps,     \* Referral steps of the current resolution, over all its events
    exceeded,           \* budgets exceeded by some event of the current resolution
    learned,            \* per question: when its last final reply came from upstream
    expect,             \* what the cache owes the current resolution: "hit", "miss", "-"
    \* ---- Part III: the components on their own ----
    call,               \* the latest call on a component: operation, arguments, result
    delegation_point,   \* the DelegationPoint that is called, if any
    marks,              \* the hosts marked lame and the servers marked probed so far
    inserted,           \* per question: when add_response last took a message, its min TTL
    host_and_rtt,       \* RTTBasedHostSelector: host -> HostState
    streak,             \* per host: set_timeout calls since the last set_rtt, time of the last
    \* ---- Part V: the UDP front end ----
    pools,              \* one MessageBufPool per worker thread: slots and next
    senders,            \* the request queue of each worker: buffers sent to it
    resp_queue,         \* the response queue: buffers on their way to the socket
    handler_index,      \* the worker that the next datagram is offered to first
    received,           \* datagrams read from the socket so far
    dropped             \* buffers whose owner went out of scope without a release

aggVars == <<inflight_queries, otherInflight, waiting_queries, chan, aggPc, aggReq,
             aggRx, aggSeen, aggResp, aggResult, query_count>>

iterVars == <<events, cache, now, iterPhase, final, world, round, sent, probe,
              referral_steps, exceeded, learned, expect>>

frontVars == <<pools, senders, resp_queue, handler_index, received, dropped>>

unitVars == <<call, delegation_point, marks, inserted, host_and_rtt, streak, frontVars>>

vars == <<aggVars, iterVars, unitVars>>

(***************************************************************************)
(* Part I.  AggregateClient                                                *)
(***************************************************************************)

\* Bounds of the model.
MaxCallers == 3

\* const MAX_INFLIGHT_QUERY_COUNT: usize = 1000
MAX_INFLIGHT_QUERY_COUNT == 1000

Callers == 1..MaxCallers
AggNames == {"zdns.cn", "zdns.com"}
AggTypes == {"A"}
Targets == {"2.2.2.2", "3.3.3.3"}
AggQuestions == [name : AggNames, typ : AggTypes]
AggRequests == [question : AggQuestions, target : Targets]

NoReq == [question |-> [name |-> "", typ |-> ""], target |-> ""]
NoValue == "None"
\* Outcomes of the underlying client: a reply or an error.
UpstreamOutcomes == {"Ok:reply", "Err:timeout"}

\* Inflightkey::new, Hash and PartialEq: the key is (name, typ); the target is not
\* part of it.
Inflightkey(request) == <<request.question.name, request.question.typ>>

\* Mutation of InflightLen: the keys of the other callers are not counted.
InflightLenOfCallers == Cardinality(DOMAIN inflight_queries)

\* inflight_queries.len(): the keys of the modelled callers plus the other keys in
\* flight.
InflightLen == Cardinality(DOMAIN inflight_queries) + otherInflight

\* tokio::sync::watch::channel(None): the initial value is version 1, a fresh
\* receiver has observed version 0.
NewChannel == [value |-> NoValue, version |-> 1, closed |-> FALSE]
ClosedChannel == [value |-> NoValue, version |-> 0, closed |-> TRUE]

\* Mutation of WaiterAccepts: a waiter that takes whatever the channel holds.
WaiterAcceptsAnything(v) == TRUE

\* `if let Some(resp) = resp` (line 105): the waiter returns only on a published
\* result, never on the channel's initial None.
WaiterAccepts(v) == v # NoValue

\* query(), lines 80-98, Entry::Occupied: the critical section of a caller that
\* finds its key in flight clones the leader's receiver. The merged caller never
\* reads its target again, so the model does not keep it.
AggEnterOccupied(c, req) ==
    /\ aggPc[c] = "start"
    /\ Inflightkey(req) \in DOMAIN inflight_queries
    /\ aggReq' = [aggReq EXCEPT ![c] = [req EXCEPT !.target = ""]]
    /\ aggRx' = [aggRx EXCEPT ![c] = inflight_queries[Inflightkey(req)]]
    /\ aggSeen' = [aggSeen EXCEPT ![c] = 0]
    /\ aggPc' = [aggPc EXCEPT ![c] = "merged"]
    /\ UNCHANGED <<inflight_queries, otherInflight, waiting_queries, chan, aggResp,
                   aggResult, query_count>>
    /\ UNCHANGED <<iterVars, unitVars>>

\* query(), lines 89-96 and 121, Entry::Vacant below the cap: the caller becomes the
\* leader, creates the channel, registers the receiver under the key and issues the
\* underlying query.
AggEnterVacant(c, req) ==
    /\ aggPc[c] = "start"
    /\ Inflightkey(req) \notin DOMAIN inflight_queries
    /\ ~(InflightLen + 1 > MAX_INFLIGHT_QUERY_COUNT)
    /\ aggReq' = [aggReq EXCEPT ![c] = req]
    /\ chan' = [chan EXCEPT ![c] = NewChannel]
    /\ inflight_queries' =
           [k \in DOMAIN inflight_queries \cup {Inflightkey(req)} |->
               IF k = Inflightkey(req) THEN c ELSE inflight_queries[k]]
    /\ query_count' = [query_count EXCEPT ![req.question] = @ + 1]
    /\ aggPc' = [aggPc EXCEPT ![c] = "querying"]
    /\ UNCHANGED <<otherInflight, waiting_queries, aggRx, aggSeen, aggResp, aggResult>>
    /\ UNCHANGED <<iterVars, unitVars>>

\* query(), lines 90-92: a new key above the cap fails at once.
AggEnterTooMany(c, req) ==
    /\ aggPc[c] = "start"
    /\ Inflightkey(req) \notin DOMAIN inflight_queries
    /\ InflightLen + 1 > MAX_INFLIGHT_QUERY_COUNT
    /\ aggReq' = [aggReq EXCEPT ![c] = req]
    /\ aggResult' = [aggResult EXCEPT ![c] = "Err:too many outgoing quires"]
    /\ aggPc' = [aggPc EXCEPT ![c] = "done"]
    /\ UNCHANGED <<inflight_queries, otherInflight, waiting_queries, chan, aggRx,
                   aggSeen, aggResp, query_count>>
    /\ UNCHANGED <<iterVars, unitVars>>

\* query(), line 101: the merged caller counts itself as waiting.
AggWaiterCount(c) ==
    /\ aggPc[c] = "merged"
    /\ waiting_queries' = waiting_queries + 1
    /\ aggPc' = [aggPc EXCEPT ![c] = "waiting"]
    /\ UNCHANGED <<inflight_queries, otherInflight, chan, aggReq, aggRx, aggSeen,
                   aggResp, aggResult, query_count>>
    /\ UNCHANGED <<iterVars, unitVars>>

\* query(), lines 103-118: one turn of the waiter's loop. rx.recv() yields the
\* channel's value when its version is one the receiver has not observed (the first
\* recv of a clone yields the current value), yields nothing once the sender is gone,
\* and otherwise stays pending.
AggWaiterRecv(c) ==
    /\ aggPc[c] = "waiting"
    /\ LET ch == chan[aggRx[c]] IN
       /\ ch.version # aggSeen[c] \/ ch.closed
       /\ IF ch.version # aggSeen[c]
          THEN /\ aggSeen' = [aggSeen EXCEPT ![c] = ch.version]
               /\ IF WaiterAccepts(ch.value)
                  THEN /\ waiting_queries' = waiting_queries - 1
                       /\ aggResult' = [aggResult EXCEPT ![c] = ch.value]
                       /\ aggPc' = [aggPc EXCEPT ![c] = "done"]
                  ELSE UNCHANGED <<waiting_queries, aggResult, aggPc>>
          ELSE UNCHANGED <<aggSeen, waiting_queries, aggResult, aggPc>>
    /\ UNCHANGED <<inflight_queries, otherInflight, chan, aggReq, aggRx, aggResp,
                   query_count>>
    /\ UNCHANGED <<iterVars, unitVars>>

\* Mutation of AggLeaderRemove: the key is removed only after a reply.
AggLeaderRemoveOnReply(c, outcome) ==
    /\ aggPc[c] = "querying"
    /\ aggResp' = [aggResp EXCEPT ![c] = outcome]
    /\ aggReq' = [aggReq EXCEPT ![c].target = ""]
    /\ inflight_queries' =
           IF outcome = "Err:timeout" THEN inflight_queries
           ELSE [k \in DOMAIN inflight_queries \ {Inflightkey(aggReq[c])} |->
                    inflight_queries[k]]
    /\ aggPc' = [aggPc EXCEPT ![c] = "publish"]
    /\ UNCHANGED <<otherInflight, waiting_queries, chan, aggRx, aggSeen,
                   aggResult, query_count>>
    /\ UNCHANGED <<iterVars, unitVars>>

\* query(), lines 121-126: the underlying query returns and the leader removes the
\* key under the lock. The target is not read after the underlying query.
AggLeaderRemove(c, outcome) ==
    /\ aggPc[c] = "querying"
    /\ aggResp' = [aggResp EXCEPT ![c] = outcome]
    /\ aggReq' = [aggReq EXCEPT ![c].target = ""]
    /\ inflight_queries' =
           [k \in DOMAIN inflight_queries \ {Inflightkey(aggReq[c])} |->
               inflight_queries[k]]
    /\ aggPc' = [aggPc EXCEPT ![c] = "publish"]
    /\ UNCHANGED <<otherInflight, waiting_queries, chan, aggRx, aggSeen,
                   aggResult, query_count>>
    /\ UNCHANGED <<iterVars, unitVars>>

\* The future of a merged caller is dropped while it is suspended in rx.recv().await
\* (line 104), the only point where a waiter can be cancelled: its receiver is
\* dropped with it, the counter of line 101 is left as it is, and nothing is sent.
AggWaiterDrop(c) ==
    /\ aggPc[c] = "waiting"
    /\ aggPc' = [aggPc EXCEPT ![c] = "dropped"]
    /\ UNCHANGED <<inflight_queries, otherInflight, waiting_queries, chan, aggReq, aggRx,
                   aggSeen, aggResp, aggResult, query_count>>
    /\ UNCHANGED <<iterVars, unitVars>>

\* Mutation of AggLeaderBroadcast: the leader returns and drops the sender without
\* publishing.
AggLeaderReturnsOnly(c) ==
    /\ aggPc[c] = "publish"
    /\ chan' = [chan EXCEPT ![c] = [@ EXCEPT !.closed = TRUE]]
    /\ aggResult' = [aggResult EXCEPT ![c] = aggResp[c]]
    /\ aggPc' = [aggPc EXCEPT ![c] = "done"]
    /\ UNCHANGED <<inflight_queries, otherInflight, waiting_queries, aggReq, aggRx,
                   aggSeen, aggResp, query_count>>
    /\ UNCHANGED <<iterVars, unitVars>>

\* query(), lines 128-136: the leader broadcasts a copy of the outcome, drops the
\* sender and returns the outcome itself.
AggLeaderBroadcast(c) ==
    /\ aggPc[c] = "publish"
    /\ chan' = [chan EXCEPT ![c] = [value |-> aggResp[c], version |-> @.version + 2,
                                    closed |-> TRUE]]
    /\ aggResult' = [aggResult EXCEPT ![c] = aggResp[c]]
    /\ aggPc' = [aggPc EXCEPT ![c] = "done"]
    /\ UNCHANGED <<inflight_queries, otherInflight, waiting_queries, aggReq, aggRx,
                   aggSeen, aggResp, query_count>>
    /\ UNCHANGED <<iterVars, unitVars>>

AggInit ==
    /\ inflight_queries = <<>>
    /\ otherInflight \in {0, MAX_INFLIGHT_QUERY_COUNT - 1}
    /\ waiting_queries = 0
    /\ chan = [c \in Callers |-> ClosedChannel]
    /\ aggPc = [c \in Callers |-> "start"]
    /\ aggReq = [c \in Callers |-> NoReq]
    /\ aggRx = [c \in Callers |-> 0]
    /\ aggSeen = [c \in Callers |-> 0]
    /\ aggResp = [c \in Callers |-> NoValue]
    /\ aggResult = [c \in Callers |-> NoValue]
    /\ query_count = [q \in AggQuestions |-> 0]

AggNext ==
    \/ \E c \in Callers, req \in AggRequests : AggEnterOccupied(c, req)
    \/ \E c \in Callers, req \in AggRequests : AggEnterVacant(c, req)
    \/ \E c \in Callers, req \in AggRequests : AggEnterTooMany(c, req)
    \/ \E c \in Callers : AggWaiterCount(c)
    \/ \E c \in Callers : AggWaiterRecv(c)
    \/ \E c \in Callers, outcome \in UpstreamOutcomes : AggLeaderRemove(c, outcome)
    \/ \E c \in Callers : AggLeaderBroadcast(c)

(***************************************************************************)
(* Part II.  Iterator                                                      *)
(***************************************************************************)

\* Bounds of the model.
MaxResolutions == 3
MaxHostileQueries == 3

\* iterator.rs, lines 21-25, in seconds where they are durations.
MAX_CNAME_REDIRECT_COUNT == 8
MAX_DEPENDENT_QUERY_COUNT == 4
MAX_REFERRAL_COUNT == 10
MAX_ERROR_COUNT == 5
ITERATOR_TIMEOUT == 10
\* nsclient.rs, line 15: the deadline of one UDP round trip, in seconds.
DEFAULT_RECV_TIMEOUT == 3

\* ---- r53::Name: a name is the sequence of its labels, top label first ----
Root == <<>>
Com == <<"com">>
Net == <<"net">>
WwwCom == <<"com", "www">>
NsCom == <<"com", "ns">>
WebNet == <<"net", "web">>
NsNet == <<"net", "ns">>
ARoot == <<"net", "root-servers", "a">>

\* Name::is_subdomain: n is z or lies below z.
is_subdomain(n, z) == Len(z) <= Len(n) /\ SubSeq(n, 1, Len(z)) = z
\* Name::parent(1) of a name that is not the root.
parent(n) == SubSeq(n, 1, Len(n) - 1)

\* ---- r53::RRset, RData and Message ----
RdA(host) == [kind |-> "A", name |-> Root, host |-> host]
RdName(kind, n) == [kind |-> kind, name |-> n, host |-> ""]
RRset(name, typ, ttl, rdatas) ==
    [name |-> name, typ |-> typ, ttl |-> ttl, rdatas |-> rdatas]

\* Message::with_query: a query with a transaction id of its own.
with_query(name, typ) ==
    [id |-> 0, qr |-> FALSE, opcode |-> "Query", aa |-> FALSE, ra |-> FALSE,
     rcode |-> "NoError", question |-> <<[name |-> name, typ |-> typ]>>,
     answer |-> <<>>, authority |-> <<>>, additional |-> <<>>]

\* MessageBuilder::make_response().rcode(rcode) on a copy of the request.
make_response(request, rcode) == [request EXCEPT !.qr = TRUE, !.rcode = rcode]

\* ---- util/message_helper.rs ----
\* Mutation of Retain: every rrset is kept.
RetainAll(rrsets, zone) == rrsets
\* rrsets.retain(|rrset| rrset.name.is_subdomain(zone))
Retain(rrsets, zone) == SelectSeq(rrsets, LAMBDA rrset : is_subdomain(rrset.name, zone))

\* The loop of sanitize_cname_chain from position i on: <<has_answer, index of the
\* last valid rrset>>.
RECURSIVE CnameWalk(_, _, _, _, _)
CnameWalk(qtype, rrsets, i, last_name, last_valid) ==
    IF i > Len(rrsets) THEN <<FALSE, last_valid>>
    ELSE IF rrsets[i].name # last_name THEN <<FALSE, last_valid>>
    ELSE IF rrsets[i].typ # "CNAME"
         THEN IF rrsets[i].typ = qtype THEN <<TRUE, i>> ELSE <<FALSE, last_valid>>
    ELSE IF Len(rrsets[i].rdatas) # 1 THEN <<FALSE, last_valid>>
    ELSE CnameWalk(qtype, rrsets, i + 1, rrsets[i].rdatas[1].name, i)

\* sanitize_cname_chain: truncates the answer to the chain and tells whether the
\* chain ends in an rrset of the query type.
sanitize_cname_chain(qtype, rrsets) ==
    LET w == CnameWalk(qtype, rrsets, 1, rrsets[1].name, 1) IN
    [has_answer |-> w[1], rrsets |-> SubSeq(rrsets, 1, w[2])]

\* sanitize_and_classify_response: ok is FALSE where the code bails; resp is the
\* message as the call leaves it, sanitized as far as the call got.
sanitize_and_classify_response(zone, name, typ, resp) ==
    LET Bail(left) == [ok |-> FALSE, category |-> "ServerFail", resp |-> left] IN
    IF ~resp.qr THEN Bail(resp)
    ELSE IF resp.opcode # "Query" THEN Bail(resp)
    ELSE IF resp.question = <<>> THEN Bail(resp)
    ELSE IF resp.question[1].name # name \/ resp.question[1].typ # typ THEN Bail(resp)
    ELSE IF resp.rcode \notin {"NoError", "NXDomain"}
         THEN [ok |-> TRUE, category |-> "ServerFail", resp |-> resp]
    ELSE
    LET answers == Retain(resp.answer, zone)
        has_answer == answers # <<>>
        chain == IF has_answer THEN sanitize_cname_chain(typ, answers)
                 ELSE [has_answer |-> FALSE, rrsets |-> answers]
        by_rcode == IF resp.rcode = "NoError" THEN "NXRRset" ELSE "NXDomain"
        by_answer == IF ~has_answer THEN by_rcode
                     ELSE IF chain.has_answer THEN "Answer" ELSE "CName"
        auth == Retain(resp.authority, zone)
        category == IF auth # <<>> /\ resp.rcode = "NoError" /\ ~has_answer
                       /\ auth[1].typ = "NS"
                    THEN "Referral" ELSE by_answer
        additional == Retain(resp.additional, zone)
        with_answer == [resp EXCEPT !.answer = chain.rrsets]
        with_auth == [with_answer EXCEPT !.authority = auth]
        with_additional == [with_auth EXCEPT !.additional = additional]
    IN  IF has_answer /\ (answers[1].name # name
                          \/ (answers[1].typ # typ /\ answers[1].typ # "CNAME"))
        THEN Bail([resp EXCEPT !.answer = answers])
        ELSE IF Len(auth) > 1 THEN Bail(with_auth)
        ELSE IF auth # <<>> /\ resp.rcode = "NXDomain" /\ auth[1].typ # "SOA"
             THEN Bail(with_auth)
        ELSE IF auth # <<>> /\ resp.rcode = "NoError" /\ has_answer /\ resp.aa
                /\ auth[1].typ # "NS" THEN Bail(with_auth)
        ELSE IF \E i \in DOMAIN additional : additional[i].typ \notin {"A", "AAAA"}
             THEN Bail(with_additional)
        ELSE [ok |-> TRUE, category |-> category, resp |-> with_additional]

\* ---- delegation_point.rs ----
\* server_and_hosts maps a server name to the set of its addresses.
Put(map, key, value) ==
    [k \in DOMAIN map \cup {key} |-> IF k = key THEN value ELSE map[k]]
Remove(map, key) == [k \in DOMAIN map \ {key} |-> map[k]]

\* DelegationPoint::new
DelegationPoint_new(zone, server_and_hosts) ==
    [zone |-> zone, server_and_hosts |-> server_and_hosts,
     probed_server |-> {}, lame_host |-> {}]

\* DelegationPoint::add_glue: the dp after the call and the call's result.
add_glue(dp, glue) ==
    IF glue.name \in DOMAIN dp.server_and_hosts
    THEN [dp |-> [dp EXCEPT !.server_and_hosts[glue.name] =
                      @ \cup {glue.rdatas[i].host :
                                 i \in {j \in DOMAIN glue.rdatas : glue.rdatas[j].kind = "A"}}],
          added |-> TRUE]
    ELSE [dp |-> dp, added |-> FALSE]

RECURSIVE AddGlues(_, _)
AddGlues(dp, glues) ==
    IF glues = <<>> THEN dp ELSE AddGlues(add_glue(dp, Head(glues)).dp, Tail(glues))

\* DelegationPoint::from_ns_rrset
from_ns_rrset(ns, glues) ==
    AddGlues(DelegationPoint_new(ns.name,
                 [n \in {ns.rdatas[i].name :
                            i \in {j \in DOMAIN ns.rdatas : ns.rdatas[j].kind = "NS"}}
                     |-> {}]),
             glues)

\* Mutation of from_referral_response: the additional section is not looked at.
from_referral_response_glueless(response) == from_ns_rrset(response.authority[1], <<>>)

\* DelegationPoint::from_referral_response, for a response with an authority section.
from_referral_response(response) ==
    AddGlues(from_ns_rrset(response.authority[1], <<>>), response.additional)

\* Mutation of TargetHosts: the lame addresses are not filtered out.
TargetHostsWithLame(dp) ==
    UNION {dp.server_and_hosts[n] : n \in DOMAIN dp.server_and_hosts}

\* Mutation of MissingServers: the probed servers are not skipped.
MissingServersWithProbed(dp) ==
    {n \in DOMAIN dp.server_and_hosts :
        /\ dp.server_and_hosts[n] = {}
        /\ ~is_subdomain(n, dp.zone)}

\* DelegationPoint::get_target, before the selector: the addresses that are not lame.
TargetHosts(dp) ==
    UNION {dp.server_and_hosts[n] : n \in DOMAIN dp.server_and_hosts} \ dp.lame_host

\* Mutation of MissingServers: the zone is handed out in place of a server.
MissingServersZone(dp) ==
    {dp.zone : n \in {n \in DOMAIN dp.server_and_hosts :
                        /\ dp.server_and_hosts[n] = {}
                        /\ ~is_subdomain(n, dp.zone)
                        /\ n \notin dp.probed_server}}

\* DelegationPoint::get_missing_server returns one of these; which one depends on
\* the iteration order of the HashMap.
MissingServers(dp) ==
    {n \in DOMAIN dp.server_and_hosts :
        /\ dp.server_and_hosts[n] = {}
        /\ ~is_subdomain(n, dp.zone)
        /\ n \notin dp.probed_server}

\* Mutation of add_probed_server: the server is not recorded.
add_probed_server_forgotten(dp, name) == dp

\* DelegationPoint::add_probed_server, below its assert.
add_probed_server(dp, name) == [dp EXCEPT !.probed_server = @ \cup {name}]

\* Mutation of mark_server_lame: the host is not recorded.
mark_server_lame_forgotten(dp, host) == dp

\* DelegationPoint::mark_server_lame
mark_server_lame(dp, host) == [dp EXCEPT !.lame_host = @ \cup {host}]

\* ---- cache: RRsetTrustLevel and the RRset cache ----
\* Mutation of RRsetTrustLevel: PrimGlue declared after AuthorityWithAA.
RRsetTrustLevelSwapped ==
    <<"AdditionalWithoutAA", "AuthorityWithoutAA", "AdditionalWithAA",
      "NonAuthAnswerWithAA", "AnswerWithoutAA", "AuthorityWithAA", "PrimGlue",
      "AnswerWithAA", "PrimNonGlue">>

\* enum RRsetTrustLevel, lowest first (the derived Ord is the declaration order).
RRsetTrustLevel ==
    <<"AdditionalWithoutAA", "AuthorityWithoutAA", "AdditionalWithAA",
      "NonAuthAnswerWithAA", "AnswerWithoutAA", "PrimGlue", "AuthorityWithAA",
      "AnswerWithAA", "PrimNonGlue">>
TrustRank(level) == CHOOSE i \in DOMAIN RRsetTrustLevel : RRsetTrustLevel[i] = level

\* get_rrset_trust_level. "Panic" is the unwrap of a question that is no longer in
\* the message.
get_rrset_trust_level(rrset, message, section) ==
    IF section = "Answer"
    THEN IF message.aa
         THEN IF rrset.typ = "CNAME"
              THEN IF message.question = <<>> THEN "Panic"
                   ELSE IF rrset.name # message.question[1].name
                        THEN "AnswerWithoutAA" ELSE "AnswerWithAA"
              ELSE "AnswerWithAA"
         ELSE "AnswerWithoutAA"
    ELSE IF section = "Authority"
    THEN IF message.aa THEN "AuthorityWithAA" ELSE "AuthorityWithoutAA"
    ELSE IF message.aa THEN "AdditionalWithAA" ELSE "AdditionalWithoutAA"

\* The RRset cache maps (name, typ) to the rrset, its trust level and the instant it
\* expires. The capacity of the LRU is never reached by the runs of the model.
RRsetExpired(entry, t) == entry.expire <= t

\* RRsetLruCache::get_rrset: the rrset with what is left of its TTL.
get_rrset(rrset_cache, name, typ, t) ==
    IF <<name, typ>> \in DOMAIN rrset_cache /\ ~RRsetExpired(rrset_cache[<<name, typ>>], t)
    THEN <<[rrset_cache[<<name, typ>>].rrset EXCEPT
               !.ttl = rrset_cache[<<name, typ>>].expire - t]>>
    ELSE <<>>

\* RRsetLruCache::add_rrset: a cached rrset that has not expired yields only to a
\* trust level that is at least its own.
add_rrset(rrset_cache, rrset, trust_level, t) ==
    LET key == <<rrset.name, rrset.typ>> IN
    IF /\ key \in DOMAIN rrset_cache
       /\ ~RRsetExpired(rrset_cache[key], t)
       /\ TrustRank(trust_level) < TrustRank(rrset_cache[key].trust_level)
    THEN rrset_cache
    ELSE Put(rrset_cache, key,
             [rrset |-> rrset, trust_level |-> trust_level, expire |-> t + rrset.ttl])

\* RRsetLruCache::gen_response: the cached rrset of the question as the answer.
rrset_gen_response(rrset_cache, request, t) ==
    LET rrset == get_rrset(rrset_cache, request.question[1].name,
                           request.question[1].typ, t) IN
    IF rrset = <<>> THEN <<>>
    ELSE <<[make_response(request, "NoError") EXCEPT !.ra = TRUE, !.answer = rrset]>>

\* RRsetLruCache::gen_cname_response: the cached CNAME of the question's name.
rrset_gen_cname_response(rrset_cache, request, t) ==
    LET rrset == get_rrset(rrset_cache, request.question[1].name, "CNAME", t) IN
    IF rrset = <<>> \/ request.question[1].typ = "CNAME" THEN <<>>
    ELSE <<[make_response(request, "NoError") EXCEPT !.ra = TRUE, !.answer = rrset]>>

\* ---- cache/message_cache_entry.rs ----
SectionItems(rrsets, section) ==
    [i \in DOMAIN rrsets |-> [rrset |-> rrsets[i], section |-> section]]

\* MessageEntry::add_section over the sections in turn. min_ttl is -1 while it is
\* still u32::MAX, that is while no rrset has been seen.
RECURSIVE AddSections(_, _, _, _, _)
AddSections(items, message, rrset_cache, min_ttl, t) ==
    IF items = <<>>
    THEN [panic |-> FALSE, rrset_cache |-> rrset_cache, min_ttl |-> min_ttl]
    ELSE LET rrset == Head(items).rrset
             trust_level == get_rrset_trust_level(rrset, message, Head(items).section)
         IN  IF trust_level = "Panic"
             THEN [panic |-> TRUE, rrset_cache |-> rrset_cache, min_ttl |-> min_ttl]
             ELSE AddSections(Tail(items), message,
                              add_rrset(rrset_cache, rrset, trust_level, t),
                              IF min_ttl = -1 \/ rrset.ttl < min_ttl
                              THEN rrset.ttl ELSE min_ttl,
                              t)

\* MessageEntry::new: the question is taken out of the message before the sections
\* are added. An expire_time of -1 is the instant u32::MAX seconds ahead.
MessageEntry_new(message, rrset_cache, t) ==
    LET items == SectionItems(message.answer, "Answer")
                 \o SectionItems(message.authority, "Authority")
                 \o SectionItems(message.additional, "Additional")
        added == AddSections(items, [message EXCEPT !.question = <<>>], rrset_cache, -1, t)
    IN  [panic |-> added.panic,
         rrset_cache |-> added.rrset_cache,
         entry |-> [rcode |-> message.rcode,
                    answer_rrset_count |-> Len(message.answer),
                    auth_rrset_count |-> Len(message.authority),
                    additional_rrset_count |-> Len(message.additional),
                    rrset_refs |-> [i \in DOMAIN items |->
                                       <<items[i].rrset.name, items[i].rrset.typ>>],
                    expire_time |-> IF added.min_ttl = -1 THEN -1 ELSE t + added.min_ttl]]

\* MessageEntry::is_expired
is_expired(entry, t) == entry.expire_time # -1 /\ entry.expire_time <= t

\* Mutation of entry_gen_response: the response is built from the rrsets that are
\* still there.
entry_gen_response_partial(entry, req, rrset_cache, t) ==
    LET rrsets == [i \in DOMAIN entry.rrset_refs |->
                      get_rrset(rrset_cache, entry.rrset_refs[i][1],
                                entry.rrset_refs[i][2], t)]
        found == SelectSeq(rrsets, LAMBDA r : r # <<>>)
    IN  IF is_expired(entry, t) THEN <<>>
        ELSE <<[make_response(req, entry.rcode) EXCEPT
                   !.ra = TRUE, !.answer = [i \in DOMAIN found |-> found[i][1]]]>>

\* MessageEntry::gen_response
entry_gen_response(entry, req, rrset_cache, t) ==
    LET rrsets == [i \in DOMAIN entry.rrset_refs |->
                      get_rrset(rrset_cache, entry.rrset_refs[i][1],
                                entry.rrset_refs[i][2], t)]
        an == entry.answer_rrset_count
        au == entry.auth_rrset_count
    IN  IF is_expired(entry, t) THEN <<>>
        ELSE IF \E i \in DOMAIN rrsets : rrsets[i] = <<>> THEN <<>>
        ELSE <<[make_response(req, entry.rcode) EXCEPT
                   !.ra = TRUE,
                   !.answer = [i \in 1..an |-> rrsets[i][1]],
                   !.authority = [i \in 1..au |-> rrsets[an + i][1]],
                   !.additional = [i \in 1..entry.additional_rrset_count |->
                                      rrsets[an + au + i][1]]]>>

\* ---- cache/message_cache.rs: MessageLruCache ----
EmptyLruCache == [messages |-> <<>>, rrset_cache |-> <<>>]
QuestionKey(message) == <<message.question[1].name, message.question[1].typ>>

\* MessageLruCache::get_deepest_ns
RECURSIVE get_deepest_ns(_, _, _)
get_deepest_ns(lru, name, t) ==
    LET ns == get_rrset(lru.rrset_cache, name, "NS", t) IN
    IF ns # <<>> THEN ns
    ELSE IF name # Root THEN get_deepest_ns(lru, parent(name), t)
    ELSE <<>>

\* MessageLruCache::gen_response: the response, if any, and the cache after the call.
lru_gen_response(lru, request, t) ==
    LET key == QuestionKey(request) IN
    IF key \in DOMAIN lru.messages
    THEN LET response == entry_gen_response(lru.messages[key], request,
                                            lru.rrset_cache, t)
         IN  [response |-> response,
              lru |-> IF response = <<>>
                      THEN [lru EXCEPT !.messages = Remove(@, key)] ELSE lru]
    ELSE [response |-> rrset_gen_response(lru.rrset_cache, request, t), lru |-> lru]

\* MessageLruCache::add_response
lru_add_response(lru, message, t) ==
    LET key == QuestionKey(message)
        new == MessageEntry_new(message, lru.rrset_cache, t)
    IN  IF key \in DOMAIN lru.messages /\ ~is_expired(lru.messages[key], t)
        THEN [panic |-> FALSE, lru |-> lru]
        ELSE [panic |-> new.panic,
              lru |-> [messages |-> Put(lru.messages, key, new.entry),
                       rrset_cache |-> new.rrset_cache]]

\* MessageLruCache::add_rrset_in_response
lru_add_rrset_in_response(lru, message, t) ==
    LET new == MessageEntry_new(message, lru.rrset_cache, t) IN
    [panic |-> new.panic, lru |-> [lru EXCEPT !.rrset_cache = new.rrset_cache]]

\* ---- MessageCache: the positive and the negative MessageLruCache ----
EmptyCache == [positive_cache |-> EmptyLruCache, negative_cache |-> EmptyLruCache]

\* MessageCache::gen_response
gen_response(mc, request, t) ==
    LET pos == lru_gen_response(mc.positive_cache, request, t)
        neg == lru_gen_response(mc.negative_cache, request, t)
    IN  IF pos.response # <<>>
        THEN [response |-> pos.response, cache |-> [mc EXCEPT !.positive_cache = pos.lru]]
        ELSE [response |-> neg.response,
              cache |-> [positive_cache |-> pos.lru, negative_cache |-> neg.lru]]

\* classify_response of the cache: by rcode and by what the sections hold.
classify_response(response) ==
    IF response.rcode = "NXDomain" THEN "NXDomain"
    ELSE IF response.rcode # "NoError" THEN "ServerFail"
    ELSE IF response.answer # <<>> THEN "Answer"
    ELSE IF response.authority # <<>> /\ response.authority[1].typ = "NS" THEN "Referral"
    ELSE "NXRRset"

\* MessageCache::add_rrset_in_response
add_rrset_in_response(mc, response, t) ==
    LET r == lru_add_rrset_in_response(mc.positive_cache, response, t) IN
    [panic |-> r.panic, cache |-> [mc EXCEPT !.positive_cache = r.lru]]

\* MessageCache::add_response
add_response(mc, response, t) ==
    LET category == classify_response(response)
        pos == lru_add_response(mc.positive_cache, response, t)
        neg == lru_add_response(mc.negative_cache, response, t)
    IN  IF category = "Answer"
        THEN [panic |-> pos.panic, cache |-> [mc EXCEPT !.positive_cache = pos.lru]]
        ELSE IF category \in {"NXDomain", "NXRRset"}
        THEN [panic |-> neg.panic, cache |-> [mc EXCEPT !.negative_cache = neg.lru]]
        ELSE IF category = "Referral" THEN add_rrset_in_response(mc, response, t)
        ELSE [panic |-> FALSE, cache |-> mc]

\* MessageCache::gen_cname_response
gen_cname_response(mc, request, t) ==
    rrset_gen_cname_response(mc.positive_cache.rrset_cache, request, t)

\* The rrsets that are there, in order.
RECURSIVE Somes(_)
Somes(options) ==
    IF options = <<>> THEN <<>> ELSE Head(options) \o Somes(Tail(options))

\* Mutation of from_cache: the deepest cached NS rrset is taken as it is.
from_cache_deepest(qname, mc, t) ==
    LET ns == get_deepest_ns(mc.positive_cache, qname, t) IN
    IF ns = <<>> THEN <<>>
    ELSE <<from_ns_rrset(ns[1],
               Somes([i \in DOMAIN ns[1].rdatas |->
                         get_rrset(mc.positive_cache.rrset_cache, ns[1].rdatas[i].name,
                                   "A", t)]))>>

\* DelegationPoint::from_cache
RECURSIVE from_cache(_, _, _)
from_cache(qname, mc, t) ==
    LET ns == get_deepest_ns(mc.positive_cache, qname, t) IN
    IF ns = <<>> THEN <<>>
    ELSE
    LET rdatas == ns[1].rdatas
        all_glue_is_under_zone ==
            \A i \in DOMAIN rdatas : is_subdomain(rdatas[i].name, ns[1].name)
        glues == Somes([i \in DOMAIN rdatas |->
                           get_rrset(mc.positive_cache.rrset_cache, rdatas[i].name, "A", t)])
    IN  IF glues # <<>> \/ ~all_glue_is_under_zone
        THEN <<from_ns_rrset(ns[1], glues)>>
        ELSE IF ns[1].name # Root THEN from_cache(parent(ns[1].name), mc, t)
        ELSE <<>>

\* ---- forwarder.rs and the root hints ----
\* Mutation of forwarder_get_delegation_point: the shortest configured suffix.
forwarder_get_delegation_point_shortest(forwarders, name) ==
    LET zones == {z \in DOMAIN forwarders : is_subdomain(name, z)} IN
    IF zones = {} THEN <<>>
    ELSE LET zone == CHOOSE z \in zones : \A y \in zones : Len(z) <= Len(y) IN
         <<DelegationPoint_new(zone, [n \in {zone} |-> forwarders[zone]])>>

\* ForwarderManager::get_delegation_point: the longest configured suffix of the name.
\* DomainTree::find_node yields the deepest node at or above the name that holds a
\* value, and the node chain its absolute name.
forwarder_get_delegation_point(forwarders, name) ==
    LET zones == {z \in DOMAIN forwarders : is_subdomain(name, z)} IN
    IF zones = {} THEN <<>>
    ELSE LET zone == CHOOSE z \in zones : \A y \in zones : Len(y) <= Len(z) IN
         <<DelegationPoint_new(zone, [n \in {zone} |-> forwarders[zone]])>>

\* RootHint::get_delegation_point: a fresh dp of the root zone.
roothint_get_delegation_point ==
    DelegationPoint_new(Root, [n \in {ARoot} |-> {"198.41.0.4"}])

\* RTTBasedHostSelector::select over the hosts of a dp: some usable host, if any.
\* Which one depends on the round-trip times the selector has recorded.
SelectableHosts(dp) == TargetHosts(dp) \ world.unusable

\* ---- the nameservers of the run ----
AddrOf(n) ==
    IF n = ARoot THEN "198.41.0.4"
    ELSE IF n = NsCom THEN "192.5.6.30"
    ELSE IF n = NsNet THEN "192.33.14.30"
    ELSE "93.184.216.34"
ZoneOf(n) == IF n = Root THEN Com ELSE <<n[1]>>
OtherZone(z) == IF z = Com THEN Net ELSE Com
NsOf(z) == IF z = Root THEN ARoot ELSE z \o <<"ns">>
Alias(n) == IF n = WebNet THEN WwwCom ELSE WebNet

ARRset(n, ttl) == RRset(n, "A", ttl, <<RdA(AddrOf(n))>>)
NSRRset(z, server, ttl) == RRset(z, "NS", ttl, <<RdName("NS", server)>>)
SOARRset(z, ttl) == RRset(z, "SOA", ttl, <<RdName("SOA", NsOf(z))>>)

\* The reply of a nameserver to a request, by its kind.
Reply(kind, request) ==
    LET q == request.question[1]
        zone == ZoneOf(q.name)
        ttl == world.ttl
        auth == [make_response(request, "NoError") EXCEPT !.aa = TRUE]
        nonauth == make_response(request, "NoError")
        answer == IF q.typ = "NS" THEN <<NSRRset(q.name, NsOf(q.name), ttl)>>
                  ELSE <<ARRset(q.name, ttl)>>
    IN  CASE kind = "answer" ->
                 [auth EXCEPT !.answer = answer,
                              !.additional = IF q.typ = "NS"
                                             THEN <<ARRset(NsOf(q.name), ttl)>> ELSE <<>>]
          [] kind = "answer_bare" -> [auth EXCEPT !.answer = answer]
          [] kind = "answer_auth_aa" ->
                 [auth EXCEPT !.answer = answer,
                              !.authority = <<NSRRset(zone, NsOf(zone), world.short_ttl)>>]
          [] kind = "answer_auth" ->
                 [nonauth EXCEPT !.answer = answer,
                                 !.authority = <<NSRRset(zone, NsOf(zone), ttl)>>]
          [] kind = "cname" ->
                 [nonauth EXCEPT !.answer =
                     <<RRset(q.name, "CNAME", ttl, <<RdName("CNAME", Alias(q.name))>>)>>]
          [] kind = "cname_aa" ->
                 [auth EXCEPT !.answer =
                     <<RRset(q.name, "CNAME", ttl, <<RdName("CNAME", Alias(q.name))>>)>>]
          [] kind = "cname_chain" ->
                 [nonauth EXCEPT !.answer =
                     <<RRset(q.name, "CNAME", ttl, <<RdName("CNAME", Alias(q.name))>>),
                       RRset(Alias(q.name), "CNAME", ttl, <<RdName("CNAME", NsCom)>>)>>]
          [] kind = "cname_two" ->
                 [nonauth EXCEPT !.answer =
                     <<RRset(q.name, "CNAME", ttl,
                             <<RdName("CNAME", Alias(q.name)), RdName("CNAME", NsCom)>>)>>]
          [] kind = "cname_other" ->
                 [nonauth EXCEPT !.answer =
                     <<RRset(q.name, "CNAME", ttl, <<RdName("CNAME", Alias(q.name))>>),
                       RRset(Alias(q.name), "MX", ttl, <<RdName("MX", NsCom)>>)>>]
          [] kind = "cname_ttl0" ->
                 [nonauth EXCEPT !.answer =
                     <<RRset(q.name, "CNAME", 0, <<RdName("CNAME", Alias(q.name))>>)>>]
          [] kind = "nxdomain" ->
                 [auth EXCEPT !.rcode = "NXDomain", !.authority = <<SOARRset(zone, ttl)>>]
          [] kind = "nxrrset" -> [auth EXCEPT !.authority = <<SOARRset(zone, ttl)>>]
          [] kind = "referral" ->
                 [nonauth EXCEPT !.authority = <<NSRRset(zone, NsOf(zone), ttl)>>,
                                 !.additional = <<ARRset(NsOf(zone), ttl)>>]
          [] kind = "referral_down" ->
                 [nonauth EXCEPT !.authority = <<NSRRset(q.name, NsOf(q.name), ttl)>>,
                                 !.additional = <<ARRset(NsOf(q.name), ttl)>>]
          [] kind = "referral_foreign" ->
                 [nonauth EXCEPT !.authority =
                                     <<NSRRset(zone, NsOf(OtherZone(zone)), ttl)>>,
                                 !.additional = <<ARRset(NsOf(OtherZone(zone)), ttl)>>]
          [] kind = "referral_glueless" ->
                 [nonauth EXCEPT !.authority =
                     <<NSRRset(zone, NsOf(OtherZone(zone)), ttl)>>]
          [] kind = "servfail" -> make_response(request, "ServFail")
          [] OTHER -> request

ReplyKinds ==
    {"answer", "answer_bare", "answer_auth_aa", "answer_auth", "cname", "cname_aa",
     "cname_ttl0", "cname_chain", "cname_two", "cname_other", "nxdomain", "nxrrset",
     "referral", "referral_down", "referral_foreign", "referral_glueless", "servfail",
     "notresponse", "timeout"}

\* What the world lets a nameserver of the zone do with the request: the kinds of
\* reply, "timeout" being no reply at all. A world with fuel (fuel # -1) stops
\* replying once the resolution has sent that many queries.
Upstream(request, zone) ==
    IF world.fuel # -1 /\ sent >= world.fuel THEN {"timeout"}
    ELSE IF request.question[1] = [name |-> Root, typ |-> "NS"] THEN world.prime
    ELSE IF zone = Root THEN world.root_menu
    ELSE world.menu

World(prime, root_menu, menu, rtts, ttl, fuel, rounds) ==
    [prime |-> prime, root_menu |-> root_menu, menu |-> menu, rtts |-> rtts,
     ttl |-> ttl, short_ttl |-> 2, fuel |-> fuel, rounds |-> rounds,
     forwarders |-> <<>>, unusable |-> {}, idle |-> {1},
     questions |-> {[name |-> WwwCom, typ |-> "A"]}]

NoWorld == World({}, {}, {}, {}, 0, -1, 0)

Worlds ==
    { \* a CNAME loop, uncached and cached
      World({"answer"}, {"cname"}, {"cname"}, {0}, 0, -1, 1),
      World({"answer"}, {"cname"}, {"cname", "answer"}, {0}, 5, -1, 1),
      \* aliases that point at each other for a while and resolve in the end
      World({"answer"}, {"cname", "answer"}, {"cname", "answer"}, {0}, 0, -1, 1),
      \* aliases that are not to be cached, in front of addresses that are
      World({"answer"}, {"cname_ttl0", "answer"}, {"cname_ttl0", "answer"}, {0}, 5, -1, 1),
      \* aliases that stay in the cache and lead to a name that does not exist,
      \* asked twice
      World({"answer"}, {"referral"}, {"cname", "nxdomain"}, {0}, 5, -1, 2),
      \* a zone that refers to itself
      World({"answer"}, {"referral"}, {"referral"}, {0}, 0, -1, 1),
      \* root servers that do not reply, at once or after the UDP deadline
      World({"timeout"}, {}, {}, {0, DEFAULT_RECV_TIMEOUT}, 0, -1, 1),
      \* zones whose nameservers live in each other, uncached and cached
      World({"answer"}, {"referral_glueless"}, {"referral_glueless"}, {0}, 0, -1, 1),
      World({"answer"}, {"referral_glueless"}, {"referral_glueless"}, {0}, 5, -1, 1),
      \* root servers that answer the priming query in any way
      World({"answer", "answer_bare", "referral_glueless", "nxdomain"},
            {"referral_glueless"}, {"referral_glueless"}, {0}, 0, -1, 1),
      \* slow servers: every round trip takes the UDP deadline
      World({"answer"}, {"referral"}, {"referral", "answer"}, {DEFAULT_RECV_TIMEOUT},
            0, -1, 1),
      \* the well-behaved hierarchy, with caching
      World({"answer"}, {"referral"}, {"answer", "nxdomain", "nxrrset"}, {0}, 5, -1,
            MaxResolutions),
      \* lame servers
      World({"answer"}, {"referral"}, {"servfail", "notresponse", "timeout"}, {0}, 0,
            -1, 1),
      \* a forwarder for com. whose replies carry the zone's NS rrset
      [World({}, {}, {"answer_auth_aa", "answer_auth"}, {0}, 5, -1, MaxResolutions)
          EXCEPT !.forwarders = [z \in {Com} |-> {"44.44.44.44"}],
                 !.idle = {1, 2},
                 !.questions = {[name |-> WwwCom, typ |-> "A"],
                                [name |-> NsCom, typ |-> "A"]}],
      \* a forwarder whose zone refers on, to itself or below, any number of times
      [World({"answer"}, {"referral"}, {"referral", "referral_down", "answer"}, {0}, 0,
             -1, 1)
          EXCEPT !.forwarders = [z \in {Com} |-> {"44.44.44.44"}]],
      \* a forwarder with two addresses that fail or answer
      [World({}, {}, {"servfail", "notresponse", "answer"}, {0}, 0, -1, 1)
          EXCEPT !.forwarders = [z \in {Com} |-> {"44.44.44.44", "55.55.55.55"}]],
      \* nameservers that reply anything to the first queries
      World(ReplyKinds, ReplyKinds, ReplyKinds, {0}, 0, MaxHostileQueries, 1) }

\* ---- iter_event.rs ----
\* IterEvent::new
IterEvent_new(request, init_state, final_state, t) ==
    [start_time |-> t, original_request |-> request, current_request |-> <<>>,
     response |-> <<>>, category |-> "None", state |-> init_state,
     final_state |-> final_state, prepend_rrsets |-> <<>>, delegation_point |-> <<>>,
     query_restart_count |-> 0, referral_count |-> 0, error_count |-> 0,
     cache_hit |-> FALSE]

\* IterEvent::get_request
get_request(event) ==
    IF event.current_request # <<>> THEN event.current_request[1]
    ELSE event.original_request

\* IterEvent::get_depth of the i-th event of the chain: the events below it.
get_depth(evs, i) == Len(evs) - i

\* IterEvent::set_response
set_response(event, response, category) ==
    [event EXCEPT !.response = <<response>>, !.category = category]

\* Mutation of generate_final_response: the prepend list is pasted behind the answer.
generate_final_response_appended(event) ==
    LET response == event.response[1]
        pasted == IF response.rcode # "ServFail" /\ event.prepend_rrsets # <<>>
                  THEN [response EXCEPT !.answer = @ \o event.prepend_rrsets]
                  ELSE response
    IN  [pasted EXCEPT !.question = event.original_request.question,
                       !.ra = TRUE, !.aa = FALSE,
                       !.id = event.original_request.id]

\* IterEvent::generate_final_response, for an event that holds a response.
generate_final_response(event) ==
    LET response == event.response[1]
        pasted == IF response.rcode # "ServFail" /\ event.prepend_rrsets # <<>>
                  THEN [response EXCEPT !.answer = event.prepend_rrsets \o @]
                  ELSE response
    IN  [pasted EXCEPT !.question = event.original_request.question,
                       !.ra = TRUE, !.aa = FALSE,
                       !.id = event.original_request.id]

\* ---- iterator.rs ----
\* Mutation of error_response: the failed event goes back to QueryTarget.
error_response_retried(event) ==
    [set_response(event, make_response(get_request(event), "ServFail"), "ServerFail")
        EXCEPT !.state = "QueryTarget"]

\* Mutation of error_response: the failed event goes to Finished whatever its final
\* state is.
error_response_finishes(event) ==
    [set_response(event, make_response(get_request(event), "ServFail"), "ServerFail")
        EXCEPT !.state = "Finished"]

\* Iterator::error_response
error_response(event) ==
    [set_response(event, make_response(get_request(event), "ServFail"), "ServerFail")
        EXCEPT !.state = event.final_state]

\* Mutation of RestartExceeded: the restart budget checked one step late.
RestartExceededLate(event) ==
    event.query_restart_count > MAX_CNAME_REDIRECT_COUNT + 1

\* process_init_query, line 94
RestartExceeded(event) == event.query_restart_count > MAX_CNAME_REDIRECT_COUNT
\* process_init_query, line 99
DepthExceeded(evs) == get_depth(evs, 1) > MAX_DEPENDENT_QUERY_COUNT

\* Mutation of QueryBudgetExceeded: the referral budget is not checked.
QueryBudgetWithoutReferrals(event) == event.error_count > MAX_ERROR_COUNT

\* Mutation of QueryBudgetExceeded: the error budget is not checked.
QueryBudgetWithoutErrors(event) == event.referral_count > MAX_REFERRAL_COUNT

\* process_query_target, line 165
QueryBudgetExceeded(event) ==
    event.referral_count > MAX_REFERRAL_COUNT \/ event.error_count > MAX_ERROR_COUNT
\* process_query_target, line 231
TimedOut(event, t) == t - event.start_time > ITERATOR_TIMEOUT

\* The budgets that some event of the chain exceeds at time t.
Exceeded(evs, t) ==
    {b \in {"cname", "depth", "referral", "error", "wallclock"} :
        \E i \in DOMAIN evs :
            \/ b = "cname" /\ evs[i].query_restart_count > MAX_CNAME_REDIRECT_COUNT
            \/ b = "depth" /\ get_depth(evs, i) > MAX_DEPENDENT_QUERY_COUNT
            \/ b = "referral" /\ evs[i].referral_count > MAX_REFERRAL_COUNT
            \/ b = "error" /\ evs[i].error_count > MAX_ERROR_COUNT
            \/ b = "wallclock" /\ i = Len(evs) /\ t - evs[i].start_time > ITERATOR_TIMEOUT}

\* What every step of a resolution records: the budgets exceeded so far.
Record(evs, t) == exceeded' = exceeded \cup Exceeded(evs, t)

\* Mutation of find_delegation_point: the cached delegation is asked first.
find_delegation_point_cache_first(forwarders, qname, mc, t) ==
    IF from_cache(qname, mc, t) # <<>> THEN from_cache(qname, mc, t)
    ELSE forwarder_get_delegation_point(forwarders, qname)

\* find_delegation_point, lines 140-153: the forwarder's dp, or else the cached one.
find_delegation_point(forwarders, qname, mc, t) ==
    IF forwarder_get_delegation_point(forwarders, qname) # <<>>
    THEN forwarder_get_delegation_point(forwarders, qname)
    ELSE from_cache(qname, mc, t)

\* process_init_query with lookup_cache, find_delegation_point and prime_root.
process_init_query ==
    /\ iterPhase = "run"
    /\ events[1].state = "InitQuery"
    /\ LET event == events[1]
           request == get_request(event)
           lookup == gen_response(cache, request, now)
           cname == gen_cname_response(lookup.cache, request, now)
           dp == find_delegation_point(world.forwarders, request.question[1].name,
                                       lookup.cache, now)
           sub_event == [IterEvent_new(with_query(Root, "NS"), "QueryTarget",
                                       "PrimeResponse", now)
                            EXCEPT !.delegation_point = <<roothint_get_delegation_point>>]
       IN  IF RestartExceeded(event) \/ DepthExceeded(events)
           THEN /\ events' = <<error_response(event)>> \o Tail(events)
                /\ cache' = cache
           ELSE /\ cache' = lookup.cache
                /\ events' =
                     IF lookup.response # <<>>
                     THEN <<[set_response(event, lookup.response[1], "Answer")
                                EXCEPT !.state = event.final_state,
                                       !.cache_hit = TRUE]>> \o Tail(events)
                     ELSE IF cname # <<>>
                     THEN <<[set_response(event, cname[1], "CName")
                                EXCEPT !.state = "QueryResponse"]>> \o Tail(events)
                     ELSE IF dp # <<>>
                     THEN <<[event EXCEPT !.delegation_point = dp,
                                          !.state = "QueryTarget"]>> \o Tail(events)
                     ELSE <<sub_event>> \o events
    /\ Record(events', now)
    /\ UNCHANGED <<now, iterPhase, final, world, round, sent, probe, referral_steps,
                   learned, expect>>
    /\ UNCHANGED <<aggVars, unitVars>>

\* The smallest TTL among the rrsets of a response, -1 if it has none.
MinTtl(response) ==
    LET ttls == {r.ttl : r \in {response.answer[i] : i \in DOMAIN response.answer}
                            \cup {response.authority[i] : i \in DOMAIN response.authority}
                            \cup {response.additional[i] : i \in DOMAIN response.additional}}
    IN  IF ttls = {} THEN -1 ELSE CHOOSE m \in ttls : \A x \in ttls : m <= x

\* process_query_target, lines 164-168: a spent referral or error budget.
process_query_target_budget ==
    /\ iterPhase = "run"
    /\ events[1].state = "QueryTarget"
    /\ QueryBudgetExceeded(events[1])
    /\ events' = <<error_response(events[1])>> \o Tail(events)
    /\ Record(events', now)
    /\ UNCHANGED <<cache, now, iterPhase, final, world, round, sent, probe,
                   referral_steps, learned, expect>>
    /\ UNCHANGED <<aggVars, unitVars>>

\* process_query_target, lines 170-221: a host is selected, the query is sent and a
\* reply comes back after rtt seconds.
process_query_target_reply(host, kind, rtt) ==
    /\ iterPhase = "run"
    /\ events[1].state = "QueryTarget"
    /\ ~QueryBudgetExceeded(events[1])
    /\ events[1].delegation_point # <<>>
    /\ host \in SelectableHosts(events[1].delegation_point[1])
    /\ kind \in Upstream(get_request(events[1]), events[1].delegation_point[1].zone)
    /\ kind # "timeout"
    /\ \E sanitized \in {sanitize_and_classify_response(
                             events[1].delegation_point[1].zone,
                             get_request(events[1]).question[1].name,
                             get_request(events[1]).question[1].typ,
                             Reply(kind, get_request(events[1])))} :
       \E added \in {IF sanitized.ok
                         /\ sanitized.category \in {"Answer", "NXDomain", "NXRRset"}
                      THEN add_response(cache, sanitized.resp, now + rtt)
                      ELSE IF sanitized.ok /\ sanitized.category \in {"CName", "Referral"}
                      THEN add_rrset_in_response(cache, sanitized.resp, now + rtt)
                      ELSE [panic |-> FALSE, cache |-> cache]} :
       LET event == events[1]
           dp == event.delegation_point[1]
           question == get_request(event).question[1]
           response_category == IF sanitized.ok THEN sanitized.category ELSE "ServerFail"
           response == sanitized.resp
           key == <<question.name, question.typ>>
       IN  /\ now' = now + rtt
           /\ sent' = sent + 1
           /\ probe' = [depth |-> get_depth(events, 1),
                        query_restart_count |-> event.query_restart_count,
                        referral_count |-> event.referral_count,
                        error_count |-> event.error_count,
                        host |-> host, category |-> response_category]
           /\ IF added.panic
              THEN /\ iterPhase' = "panic"
                   /\ UNCHANGED <<events, cache, learned>>
              ELSE /\ iterPhase' = iterPhase
                   /\ cache' = added.cache
                   /\ events' =
                        IF response_category = "ServerFail"
                        THEN <<[event EXCEPT !.delegation_point =
                                   <<mark_server_lame(dp, host)>>]>> \o Tail(events)
                        ELSE <<[set_response(event, response, response_category)
                                   EXCEPT !.state = "QueryResponse"]>> \o Tail(events)
                   /\ learned' =
                        IF /\ Len(events) = 1
                           /\ event.query_restart_count = 0
                           /\ response_category \in {"Answer", "NXDomain", "NXRRset"}
                        THEN [learned EXCEPT ![key] =
                                 <<[at |-> now + rtt, min_ttl |-> MinTtl(response)]>>]
                        ELSE learned
    /\ Record(events', now')
    /\ UNCHANGED <<final, world, round, referral_steps, expect>>
    /\ UNCHANGED <<aggVars, unitVars>>

\* process_query_target, lines 222-236: the query fails after rtt seconds.
process_query_target_error(host, rtt) ==
    /\ iterPhase = "run"
    /\ events[1].state = "QueryTarget"
    /\ ~QueryBudgetExceeded(events[1])
    /\ events[1].delegation_point # <<>>
    /\ host \in SelectableHosts(events[1].delegation_point[1])
    /\ "timeout" \in Upstream(get_request(events[1]),
                              events[1].delegation_point[1].zone)
    /\ now' = now + rtt
    /\ sent' = sent + 1
    /\ probe' = [depth |-> get_depth(events, 1),
                 query_restart_count |-> events[1].query_restart_count,
                 referral_count |-> events[1].referral_count,
                 error_count |-> events[1].error_count,
                 host |-> host, category |-> "None"]
    /\ events' = IF TimedOut(events[1], now')
                 THEN <<error_response(events[1])>> \o Tail(events)
                 ELSE <<[events[1] EXCEPT !.error_count = @ + 1]>> \o Tail(events)
    /\ Record(events', now')
    /\ UNCHANGED <<cache, iterPhase, final, world, round, referral_steps, learned, expect>>
    /\ UNCHANGED <<aggVars, unitVars>>

\* process_query_target, lines 238-250: no host can be selected. A sub-event looks
\* for the address of a missing server, or the event fails.
process_query_target_missing ==
    /\ iterPhase = "run"
    /\ events[1].state = "QueryTarget"
    /\ ~QueryBudgetExceeded(events[1])
    /\ events[1].delegation_point # <<>>
    /\ SelectableHosts(events[1].delegation_point[1]) = {}
    /\ LET missing == MissingServers(events[1].delegation_point[1]) IN
       IF missing # {}
       THEN \E name \in missing :
               events' = <<IterEvent_new(with_query(name, "A"), "InitQuery",
                                         "TargetResponse", now)>> \o events
       ELSE events' = <<error_response(events[1])>> \o Tail(events)
    /\ Record(events', now)
    /\ UNCHANGED <<cache, now, iterPhase, final, world, round, sent, probe,
                   referral_steps, learned, expect>>
    /\ UNCHANGED <<aggVars, unitVars>>

\* Mutation of cname_next: the target of the first rrset of the answer.
cname_next_first(answers) == answers[1].rdatas[1].name

\* process_query_response, lines 277-280: the target of the last rrset of the answer.
cname_next(answers) == answers[Len(answers)].rdatas[1].name

\* process_query_response
process_query_response ==
    /\ iterPhase = "run"
    /\ events[1].state = "QueryResponse"
    /\ LET event == events[1]
           response == event.response[1]
           taken == [event EXCEPT !.response = <<>>]
           answers == response.answer
           last == answers[Len(answers)]
       IN  IF event.category \in {"Answer", "NXDomain", "NXRRset"}
           THEN /\ events' = <<[event EXCEPT !.state = event.final_state]>> \o Tail(events)
                /\ UNCHANGED <<iterPhase, referral_steps>>
           ELSE IF event.category = "Referral"
           THEN /\ events' = <<[taken EXCEPT
                                  !.referral_count = @ + 1,
                                  !.delegation_point = <<from_referral_response(response)>>,
                                  !.state = "QueryTarget"]>> \o Tail(events)
                /\ referral_steps' = referral_steps + 1
                /\ UNCHANGED iterPhase
           ELSE IF event.category = "CName"
           THEN IF answers = <<>> \/ last.rdatas = <<>> \/ last.rdatas[1].kind # "CNAME"
                THEN /\ iterPhase' = "panic"
                     /\ UNCHANGED <<events, referral_steps>>
                ELSE /\ events' = <<[taken EXCEPT
                                       !.prepend_rrsets = @ \o answers,
                                       !.current_request =
                                           <<with_query(cname_next(answers),
                                                        get_request(event).question[1].typ)>>,
                                       !.state = "InitQuery",
                                       !.query_restart_count = @ + 1]>> \o Tail(events)
                     /\ UNCHANGED <<iterPhase, referral_steps>>
           ELSE /\ events' = <<[taken EXCEPT !.state = "QueryTarget"]>> \o Tail(events)
                /\ UNCHANGED <<iterPhase, referral_steps>>
    /\ Record(events', now)
    /\ UNCHANGED <<cache, now, final, world, round, sent, probe, learned, expect>>
    /\ UNCHANGED <<aggVars, unitVars>>

\* process_prime_response: the unwrap of line 304 panics on a response without an
\* additional section.
process_prime_response ==
    /\ iterPhase = "run"
    /\ events[1].state = "PrimeResponse"
    /\ LET event == events[1]
           base_event == events[2]
           response == event.response[1]
       IN  IF Len(events) < 2 THEN iterPhase' = "panic" /\ UNCHANGED events
           ELSE IF event.category = "Answer"
           THEN IF response.answer = <<>> \/ response.additional = <<>>
                THEN iterPhase' = "panic" /\ UNCHANGED events
                ELSE /\ events' =
                          <<[base_event EXCEPT
                                !.delegation_point =
                                    <<from_ns_rrset(response.answer[1], response.additional)>>,
                                !.state = "QueryTarget"]>> \o Tail(Tail(events))
                     /\ UNCHANGED iterPhase
           ELSE /\ events' = <<error_response(base_event)>> \o Tail(Tail(events))
                /\ UNCHANGED iterPhase
    /\ Record(events', now)
    /\ UNCHANGED <<cache, now, final, world, round, sent, probe, referral_steps,
                   learned, expect>>
    /\ UNCHANGED <<aggVars, unitVars>>

\* process_target_response
process_target_response ==
    /\ iterPhase = "run"
    /\ events[1].state = "TargetResponse"
    /\ LET event == events[1]
           base_event == [events[2] EXCEPT !.state = "QueryTarget"]
           dp == base_event.delegation_point[1]
           answers == event.response[1].answer
           original_name == event.original_request.question[1].name
           last_rrset == [answers[Len(answers)] EXCEPT !.name = original_name]
           glued == add_glue(dp, last_rrset)
       IN  IF Len(events) < 2 \/ events[2].delegation_point = <<>>
           THEN iterPhase' = "panic" /\ UNCHANGED events
           ELSE IF /\ event.category = "Answer"
                   /\ answers # <<>>
                   /\ last_rrset.typ = "A"
                   /\ glued.added
           THEN /\ events' = <<[base_event EXCEPT !.delegation_point = <<glued.dp>>]>>
                                \o Tail(Tail(events))
                /\ UNCHANGED iterPhase
           ELSE IF original_name \notin DOMAIN dp.server_and_hosts
           THEN iterPhase' = "panic" /\ UNCHANGED events
           ELSE /\ events' = <<[base_event EXCEPT !.delegation_point =
                                   <<add_probed_server(dp, original_name)>>]>>
                                \o Tail(Tail(events))
                /\ UNCHANGED iterPhase
    /\ Record(events', now)
    /\ UNCHANGED <<cache, now, final, world, round, sent, probe, referral_steps,
                   learned, expect>>
    /\ UNCHANGED <<aggVars, unitVars>>

\* Mutation of has_cname_redirect: no event counts as redirected.
has_cname_redirect_never(event) == FALSE
\* process_finished, line 357
has_cname_redirect(event) == event.query_restart_count > 0

\* process_finished, and do_resolve returning the response.
process_finished ==
    /\ iterPhase = "run"
    /\ events[1].state = "Finished"
    /\ LET event == events[1]
           resp == generate_final_response(event)
           added == IF has_cname_redirect(event) /\ resp.rcode = "NoError"
                    THEN add_response(cache, resp, now)
                    ELSE [panic |-> FALSE, cache |-> cache]
       IN  IF event.response = <<>> \/ added.panic
           THEN iterPhase' = "panic" /\ UNCHANGED <<events, cache, final>>
           ELSE /\ iterPhase' = "done"
                /\ final' = <<resp>>
                /\ cache' = added.cache
                /\ events' = <<[event EXCEPT !.response = <<>>]>>
    /\ Record(events', now)
    /\ UNCHANGED <<now, world, round, sent, probe, referral_steps, learned, expect>>
    /\ UNCHANGED <<aggVars, unitVars>>

\* The request of a client: the question under the client's transaction id.
ClientRequest(q) == [with_query(q.name, q.typ) EXCEPT !.id = 4660]

\* What the cache owes a resolution of the key that starts at time t.
Owed(key, t) ==
    IF learned[key] = <<>> THEN "-"
    ELSE IF learned[key][1].min_ttl = -1 \/ t < learned[key][1].at + learned[key][1].min_ttl
         THEN "hit" ELSE "miss"

NoProbe == [depth |-> 0, query_restart_count |-> 0, referral_count |-> 0,
            error_count |-> 0, host |-> "", category |-> "None"]

\* resolve: a request arrives, idle seconds after the previous resolution, and
\* do_resolve creates its event.
resolve(q, idle) ==
    /\ iterPhase \in {"idle", "done"}
    /\ round < world.rounds
    /\ round < MaxResolutions
    /\ idle \in world.idle
    /\ q \in world.questions
    /\ now' = IF iterPhase = "idle" THEN now ELSE now + idle
    /\ events' = <<IterEvent_new(ClientRequest(q), "InitQuery", "Finished", now')>>
    /\ iterPhase' = "run"
    /\ final' = <<>>
    /\ round' = round + 1
    /\ sent' = 0
    /\ probe' = NoProbe
    /\ referral_steps' = 0
    /\ exceeded' = {}
    /\ expect' = Owed(<<q.name, q.typ>>, now')
    /\ UNCHANGED <<cache, world, learned>>
    /\ UNCHANGED <<aggVars, unitVars>>

ClientKeys == {<<WwwCom, "A">>, <<NsCom, "A">>}

IterIdle ==
    /\ events = <<>>
    /\ cache = EmptyCache
    /\ now = 0
    /\ iterPhase = "idle"
    /\ final = <<>>
    /\ round = 0
    /\ sent = 0
    /\ probe = NoProbe
    /\ referral_steps = 0
    /\ exceeded = {}
    /\ learned = [k \in ClientKeys |-> <<>>]
    /\ expect = "-"

AggIdle ==
    /\ AggInit
    /\ otherInflight = 0

\* No component has been called on its own.
NoCall == [op |-> "none", seq |-> 0]
\* Resolver::run has not been called.
FrontIdle ==
    /\ pools = <<>>
    /\ senders = <<>>
    /\ resp_queue = <<>>
    /\ handler_index = 0
    /\ received = 0
    /\ dropped = {}

ComponentsIdle ==
    /\ call = NoCall
    /\ delegation_point = <<>>
    /\ marks = [lame |-> {}, probed |-> {}]
    /\ inserted = <<>>
    /\ host_and_rtt = <<>>
    /\ streak = <<>>

UnitIdle ==
    /\ ComponentsIdle
    /\ FrontIdle

IterInit ==
    /\ IterIdle
    /\ world \in Worlds
    /\ AggIdle
    /\ UnitIdle

Hosts == {"198.41.0.4", "192.5.6.30", "192.33.14.30", "93.184.216.34", "44.44.44.44",
          "55.55.55.55"}
RoundTrips == {0, DEFAULT_RECV_TIMEOUT}
IdleTimes == {1, 2}
ClientQuestions == {[name |-> WwwCom, typ |-> "A"], [name |-> NsCom, typ |-> "A"]}

IterNext ==
    \/ \E q \in ClientQuestions, idle \in IdleTimes : resolve(q, idle)
    \/ process_init_query
    \/ process_query_target_budget
    \/ \E host \in Hosts, kind \in ReplyKinds, rtt \in RoundTrips :
          rtt \in world.rtts /\ process_query_target_reply(host, kind, rtt)
    \/ \E host \in Hosts, rtt \in RoundTrips :
          rtt \in world.rtts /\ process_query_target_error(host, rtt)
    \/ process_query_target_missing
    \/ process_query_response
    \/ process_prime_response
    \/ process_target_response
    \/ process_finished

\* The aggregate client on its own: the iterator stays as constructed.
AggClientInit ==
    /\ AggInit
    /\ IterIdle
    /\ world = NoWorld
    /\ UnitIdle

SpecAgg == AggClientInit /\ [][AggNext]_vars

\* The aggregate client with callers that may give up waiting. The executor keeps
\* polling while some future can make progress, and the underlying query of a leader
\* always returns: NSClient::query ends with a reply, an I/O error or its 3 s timeout.
\* The requests of these callers: all to one target, which a waiter never reads.
AggCancelRequests == {r \in AggRequests : r.target = "2.2.2.2"}

AggCancelNext ==
    \/ \E c \in Callers, req \in AggCancelRequests : AggEnterOccupied(c, req)
    \/ \E c \in Callers, req \in AggCancelRequests : AggEnterVacant(c, req)
    \/ \E c \in Callers, req \in AggCancelRequests : AggEnterTooMany(c, req)
    \/ \E c \in Callers : AggWaiterCount(c)
    \/ \E c \in Callers : AggWaiterRecv(c)
    \/ \E c \in Callers : AggWaiterDrop(c)
    \/ \E c \in Callers, outcome \in UpstreamOutcomes : AggLeaderRemove(c, outcome)
    \/ \E c \in Callers : AggLeaderBroadcast(c)

\* Some caller inside query() takes its next step.
AggProgress ==
    \E c \in Callers :
        \/ AggWaiterCount(c)
        \/ AggWaiterRecv(c)
        \/ \E outcome \in UpstreamOutcomes : AggLeaderRemove(c, outcome)
        \/ AggLeaderBroadcast(c)

SpecAggCancel == AggClientInit /\ [][AggCancelNext]_vars /\ WF_vars(AggProgress)

SpecIter == IterInit /\ [][IterNext]_vars

(***************************************************************************)
(* Part III.  The components on their own: each is called directly, with  *)
(* arguments drawn from small sets, and the latest call is kept in call.  *)
(***************************************************************************)

\* Bounds of the model.
MaxCacheCalls == 3
MaxCacheTime == 3

\* Every component as constructed.
UnitInit ==
    /\ AggIdle
    /\ IterIdle
    /\ world = NoWorld
    /\ UnitIdle

\* What a call on one component leaves alone in the iterator.
iterRest == <<events, iterPhase, final, world, round, sent, probe, referral_steps,
              exceeded, learned, expect>>

\* ---- the message cache: MessageLruCache of cache/message_cache.rs ----
CacheTtls == {1, 2}
Glue(n, ttl) == RRset(n, "A", ttl, <<RdA("192.5.6.30")>>)
NSRRsetOf(zone, servers, ttl) ==
    RRset(zone, "NS", ttl, [i \in DOMAIN servers |-> RdName("NS", servers[i])])

\* Responses to www.com. A, as build_positive_response of the tests builds them:
\* an answer (an A rrset, or a CNAME), with or without the NS rrset of the zone.
AnswerMessages ==
    {[make_response(with_query(WwwCom, "A"), "NoError") EXCEPT
         !.aa = aa, !.answer = <<an>>, !.authority = au] :
        aa \in BOOLEAN,
        an \in {RRset(WwwCom, "A", ttl, <<RdA("93.184.216.34")>>) : ttl \in CacheTtls}
               \cup {RRset(WwwCom, "CNAME", 2, <<RdName("CNAME", WebNet)>>)},
        au \in {<<>>} \cup {<<NSRRset(Com, NsCom, ttl)>> : ttl \in CacheTtls}}

\* Referrals and priming responses: the NS rrset of a zone, whose servers lie inside
\* or outside of the zone, with or without the address of one of them.
ReferralMessages ==
    {[make_response(with_query(WwwCom, "A"), "NoError") EXCEPT
         !.authority = <<NSRRsetOf(zone, servers, 2)>>, !.additional = glue] :
        zone \in {Root, Com},
        servers \in {<<NsCom>>, <<NsNet>>, <<NsCom, NsNet>>},
        glue \in {<<>>} \cup {<<Glue(n, 1)>> : n \in {NsCom, NsNet}}}

CacheKeys == {<<WwwCom, "A">>, <<Com, "NS">>}
CacheNames == {WwwCom, Com, Root}

\* The smallest TTL of the rrsets of a message that has some.
MessageMinTtl(m) ==
    LET rrsets == m.answer \o m.authority \o m.additional IN
    CHOOSE ttl \in {rrsets[i].ttl : i \in DOMAIN rrsets} :
        \A i \in DOMAIN rrsets : ttl <= rrsets[i].ttl

\* MessageLruCache::add_response(m). A panic poisons the mutex of the cache: no
\* further call gets through.
CacheAddResponse(m) ==
    /\ call.op # "panic"
    /\ call.seq < MaxCacheCalls
    /\ \E r \in {lru_add_response(cache.positive_cache, m, now)} :
          /\ cache' = IF r.panic THEN cache ELSE [cache EXCEPT !.positive_cache = r.lru]
          /\ call' = [op |-> IF r.panic THEN "panic" ELSE "add_response",
                      seq |-> call.seq + 1, arg |-> QuestionKey(m), ret |-> <<>>]
          /\ inserted' =
                IF r.panic THEN inserted
                ELSE LET key == QuestionKey(m)
                         until == now + MessageMinTtl(m)
                     IN  Put(inserted, key,
                             IF key \in DOMAIN inserted /\ inserted[key] > until
                             THEN inserted[key] ELSE until)
    /\ UNCHANGED <<aggVars, frontVars, iterRest, now, delegation_point, marks, host_and_rtt,
                   streak>>

\* MessageLruCache::add_rrset_in_response(m)
CacheAddRRsets(m) ==
    /\ call.op # "panic"
    /\ call.seq < MaxCacheCalls
    /\ \E r \in {lru_add_rrset_in_response(cache.positive_cache, m, now)} :
          /\ cache' = IF r.panic THEN cache ELSE [cache EXCEPT !.positive_cache = r.lru]
          /\ call' = [op |-> IF r.panic THEN "panic" ELSE "add_rrset_in_response",
                      seq |-> call.seq + 1, arg |-> QuestionKey(m), ret |-> <<>>]
    /\ UNCHANGED <<aggVars, frontVars, iterRest, now, delegation_point, marks, inserted,
                   host_and_rtt, streak>>

\* MessageLruCache::gen_response for the question of key. The call is recorded with
\* the message entry that it found under the key, if any.
CacheGenResponse(key) ==
    /\ call.op # "panic"
    /\ \E r \in {lru_gen_response(cache.positive_cache, with_query(key[1], key[2]), now)} :
          /\ cache' = [cache EXCEPT !.positive_cache = r.lru]
          /\ call' = [op |-> "gen_response", seq |-> call.seq, arg |-> key,
                      ret |-> r.response,
                      entry |-> IF key \in DOMAIN cache.positive_cache.messages
                                THEN <<cache.positive_cache.messages[key]>> ELSE <<>>]
    /\ UNCHANGED <<aggVars, frontVars, iterRest, now, delegation_point, marks, inserted,
                   host_and_rtt, streak>>

\* DelegationPoint::from_cache(qname, cache)
CacheFromCache(qname) ==
    /\ call.op # "panic"
    /\ call' = [op |-> "from_cache", seq |-> call.seq, arg |-> qname,
                ret |-> from_cache(qname, cache, now)]
    /\ UNCHANGED <<aggVars, frontVars, iterRest, cache, now, delegation_point, marks, inserted,
                   host_and_rtt, streak>>

\* A second passes.
CacheTick ==
    /\ call.op # "panic"
    /\ now < MaxCacheTime
    /\ now' = now + 1
    /\ call' = [op |-> "tick", seq |-> call.seq, arg |-> <<>>, ret |-> <<>>]
    /\ UNCHANGED <<aggVars, frontVars, iterRest, cache, delegation_point, marks, inserted,
                   host_and_rtt, streak>>

CacheNext ==
    \/ \E m \in AnswerMessages : CacheAddResponse(m)
    \/ \E key \in CacheKeys : CacheGenResponse(key)
    \/ CacheTick

SpecCache == UnitInit /\ [][CacheNext]_vars

\* ---- a message entry on its own: MessageEntry::new and is_expired ----
\* A NoError reply that carries no rrset in any section, as a server sends it for
\* a name that has no record of the type asked.
EmptyReply == make_response(with_query(WwwCom, "A"), "NoError")
EntryMessages == AnswerMessages \cup ReferralMessages \cup {EmptyReply}
MaxEntryCalls == 2

\* MessageEntry::new(m, rrset_cache) at the current time. The call is recorded with
\* the message, the time and the entry built.
EntryNew(m) ==
    /\ call.seq < MaxEntryCalls
    /\ \E r \in {MessageEntry_new(m, cache.positive_cache.rrset_cache, now)} :
          /\ ~r.panic
          /\ cache' = [cache EXCEPT !.positive_cache.rrset_cache = r.rrset_cache]
          /\ call' = [op |-> "new", seq |-> call.seq + 1, arg |-> m, at |-> now,
                      ret |-> r.entry, asked |-> now, expired |-> FALSE]
    /\ UNCHANGED <<aggVars, frontVars, iterRest, now, delegation_point, marks, inserted,
                   host_and_rtt, streak>>

\* entry.is_expired() on the entry built last, at the current time, which the call
\* records.
EntryIsExpired ==
    /\ call.op \in {"new", "is_expired"}
    /\ call' = [call EXCEPT !.op = "is_expired", !.asked = now,
                             !.expired = is_expired(call.ret, now)]
    /\ UNCHANGED <<aggVars, frontVars, iterRest, cache, now, delegation_point, marks,
                   inserted, host_and_rtt, streak>>

\* A second passes.
EntryTick ==
    /\ now < MaxCacheTime
    /\ now' = now + 1
    /\ UNCHANGED <<aggVars, frontVars, iterRest, cache, call, delegation_point, marks,
                   inserted, host_and_rtt, streak>>

EntryNext ==
    \/ \E m \in EntryMessages : EntryNew(m)
    \/ EntryIsExpired
    \/ EntryTick

SpecEntry == UnitInit /\ [][EntryNext]_vars

\* ---- the RRset cache: RRsetLruCache, as MessageEntry::add_section calls it ----
RRsetInputs ==
    {RRset(WwwCom, "A", ttl, <<RdA(host)>>) :
        ttl \in {0, 1, 2}, host \in {"93.184.216.34", "192.5.6.30"}}
TrustLevels == {RRsetTrustLevel[i] : i \in DOMAIN RRsetTrustLevel}

\* add_rrset(rrset, trust_level) followed by get_rrset of its key.
RRsetAddGet(rrset, trust_level) ==
    /\ \E rrset_cache \in {add_rrset(cache.positive_cache.rrset_cache, rrset,
                                     trust_level, now)} :
          /\ cache' = [cache EXCEPT !.positive_cache.rrset_cache = rrset_cache]
          /\ call' = [op |-> "add_rrset", seq |-> call.seq,
                      arg |-> [rrset |-> rrset, trust_level |-> trust_level,
                               previous |->
                                  IF <<rrset.name, rrset.typ>>
                                        \in DOMAIN cache.positive_cache.rrset_cache
                                  THEN <<cache.positive_cache.rrset_cache[
                                             <<rrset.name, rrset.typ>>]>>
                                  ELSE <<>>],
                      ret |-> get_rrset(rrset_cache, rrset.name, rrset.typ, now)]
    /\ UNCHANGED <<aggVars, frontVars, iterRest, now, delegation_point, marks, inserted,
                   host_and_rtt, streak>>

\* get_rrset(name, typ) at a later time.
RRsetGet(name, typ) ==
    /\ call' = [op |-> "get_rrset", seq |-> call.seq, arg |-> <<name, typ>>,
                ret |-> get_rrset(cache.positive_cache.rrset_cache, name, typ, now)]
    /\ UNCHANGED <<aggVars, frontVars, iterRest, cache, now, delegation_point, marks, inserted,
                   host_and_rtt, streak>>

RRsetNext ==
    \/ \E rrset \in RRsetInputs, trust_level \in TrustLevels :
          RRsetAddGet(rrset, trust_level)
    \/ RRsetGet(WwwCom, "A")
    \/ CacheTick

SpecRRset == UnitInit /\ [][RRsetNext]_vars

\* ---- one DelegationPoint and the calls of the iterator on it ----
DpHosts == {"192.5.6.30", "192.33.14.30"}
DpServers == {NsCom, NsNet, ARoot}
\* Referrals to a zone, with servers inside and outside of it.
DpReferrals ==
    {[make_response(with_query(WwwCom, "A"), "NoError") EXCEPT
         !.authority = <<NSRRsetOf(zone, servers, 2)>>, !.additional = glue] :
        zone \in {Root, Com},
        servers \in {<<NsCom>>, <<NsCom, NsNet>>, <<NsNet, ARoot>>},
        glue \in {<<>>, <<Glue(NsCom, 1)>>}}
DpRest == <<cache, now, inserted, host_and_rtt, streak>>

\* DelegationPoint::from_referral_response builds the dp.
DpFromReferral(m) ==
    /\ call.op # "panic"
    /\ delegation_point = <<>>
    /\ delegation_point' = <<from_referral_response(m)>>
    /\ call' = [op |-> "from_referral_response", seq |-> call.seq,
                arg |-> <<>>, ret |-> <<>>]
    /\ UNCHANGED <<aggVars, frontVars, iterRest, DpRest, marks>>

\* add_glue(glue), glue the address rrset of some name.
DpAddGlue(n, host) ==
    /\ call.op # "panic"
    /\ delegation_point # <<>>
    /\ \E r \in {add_glue(delegation_point[1], RRset(n, "A", 1, <<RdA(host)>>))} :
          /\ delegation_point' = <<r.dp>>
          /\ call' = [op |-> "add_glue", seq |-> call.seq, arg |-> n, ret |-> <<r.added>>]
    /\ UNCHANGED <<aggVars, frontVars, iterRest, DpRest, marks>>

\* mark_server_lame(host)
DpMarkServerLame(host) ==
    /\ call.op # "panic"
    /\ delegation_point # <<>>
    /\ delegation_point' = <<mark_server_lame(delegation_point[1], host)>>
    /\ marks' = [marks EXCEPT !.lame = @ \cup {host}]
    /\ call' = [op |-> "mark_server_lame", seq |-> call.seq, arg |-> host, ret |-> <<>>]
    /\ UNCHANGED <<aggVars, frontVars, iterRest, DpRest>>

\* get_target(selector): nothing when no address is left, and otherwise whatever
\* the selector picks among the addresses it is given, which may be nothing.
DpGetTarget ==
    /\ call.op # "panic"
    /\ delegation_point # <<>>
    /\ \E hosts \in {TargetHosts(delegation_point[1])} :
       \E ret \in IF hosts = {} THEN {<<>>} ELSE {<<>>} \cup {<<h>> : h \in hosts} :
          call' = [op |-> "get_target", seq |-> call.seq, arg |-> <<>>, ret |-> ret]
    /\ UNCHANGED <<aggVars, frontVars, iterRest, DpRest, delegation_point, marks>>

\* get_missing_server(): the first server of the map that qualifies.
DpGetMissingServer ==
    /\ call.op # "panic"
    /\ delegation_point # <<>>
    /\ \E names \in {MissingServers(delegation_point[1])} :
       \E ret \in IF names = {} THEN {<<>>} ELSE {<<n>> : n \in names} :
          call' = [op |-> "get_missing_server", seq |-> call.seq, arg |-> <<>>,
                   ret |-> ret]
    /\ UNCHANGED <<aggVars, frontVars, iterRest, DpRest, delegation_point, marks>>

\* add_probed_server(name): asserts that name is a server of the dp.
DpAddProbedServer(name) ==
    /\ call.op # "panic"
    /\ delegation_point # <<>>
    /\ IF name \in DOMAIN delegation_point[1].server_and_hosts
       THEN /\ delegation_point' = <<add_probed_server(delegation_point[1], name)>>
            /\ marks' = [marks EXCEPT !.probed = @ \cup {name}]
            /\ call' = [op |-> "add_probed_server", seq |-> call.seq,
                        arg |-> name, ret |-> <<>>]
       ELSE /\ call' = [op |-> "panic", seq |-> call.seq, arg |-> name, ret |-> <<>>]
            /\ UNCHANGED <<delegation_point, marks>>
    /\ UNCHANGED <<aggVars, frontVars, iterRest, DpRest>>

DpNext ==
    \/ \E m \in DpReferrals : DpFromReferral(m)
    \/ \E n \in DpServers, host \in DpHosts : DpAddGlue(n, host)
    \/ \E host \in DpHosts : DpMarkServerLame(host)
    \/ DpGetTarget
    \/ DpGetMissingServer
    \/ \E n \in DpServers : DpAddProbedServer(n)

SpecDp == UnitInit /\ [][DpNext]_vars

\* ---- host_selector.rs: RTTBasedHostSelector ----
\* Round-trip times are Durations, counted in nanoseconds; instants are counted in
\* seconds. The capacity of the LRU (10000 hosts) is never reached by the runs of
\* the model, so no host state is evicted.
SERVER_INIT_RTT == 0
TIMECOUNT_SERVER_SLEEP_TIME == 60
MAX_TIMEOUT_COUNT == 3

\* HostState::new
HostState_new(rtt) == [rtt |-> rtt, timeout_count |-> 0, wakeup_time |-> <<>>]
\* HostState::timeout
HostState_timeout(timeout) == [rtt |-> timeout, timeout_count |-> 1, wakeup_time |-> <<>>]

\* Mutation of calculate_rtt: the mean of the two.
calculate_rtt_mean(last, sample) == (last + sample) \div 2
\* HostState::calculate_rtt
calculate_rtt(last, sample) == (last * 7 + sample * 3) \div 10

\* HostState::set_rtt
state_set_rtt(state, rtt) ==
    [rtt |-> calculate_rtt(state.rtt, rtt),
     timeout_count |-> 0,
     wakeup_time |-> IF state.timeout_count > 0 THEN <<>> ELSE state.wakeup_time]

\* Mutation of state_set_timout: the host is never put to sleep.
state_set_timout_awake(state, timeout, t) ==
    IF state.timeout_count < MAX_TIMEOUT_COUNT
    THEN [state EXCEPT !.timeout_count = @ + 1, !.rtt = calculate_rtt(@, timeout)]
    ELSE state
\* HostState::set_timout
state_set_timout(state, timeout, t) ==
    LET counted == IF state.timeout_count < MAX_TIMEOUT_COUNT
                   THEN [state EXCEPT !.timeout_count = @ + 1,
                                      !.rtt = calculate_rtt(@, timeout)]
                   ELSE state
    IN  IF counted.timeout_count = MAX_TIMEOUT_COUNT
        THEN [counted EXCEPT !.wakeup_time = <<t + TIMECOUNT_SERVER_SLEEP_TIME>>]
        ELSE counted

\* HostState::is_usable
is_usable(state, t) == state.wakeup_time = <<>> \/ t > state.wakeup_time[1]

\* RTTBasedHostSelector::get_rtt
get_rtt(selector, host) ==
    IF host \in DOMAIN selector THEN selector[host].rtt ELSE SERVER_INIT_RTT
\* RTTBasedHostSelector::is_host_usable
is_host_usable(selector, host, t) ==
    IF host \in DOMAIN selector THEN is_usable(selector[host], t) ELSE TRUE

\* HostSelector::set_rtt of RTTBasedHostSelector
set_rtt(selector, host, rtt) ==
    IF host \in DOMAIN selector
    THEN Put(selector, host, state_set_rtt(selector[host], rtt))
    ELSE Put(selector, host, HostState_new(rtt))
\* HostSelector::set_timeout of RTTBasedHostSelector
set_timeout(selector, host, timeout, t) ==
    IF host \in DOMAIN selector
    THEN Put(selector, host, state_set_timout(selector[host], timeout, t))
    ELSE Put(selector, host, HostState_timeout(timeout))

\* Mutation of select: the first usable host.
select_first(selector, hosts, t) ==
    LET usable == SelectSeq(hosts, LAMBDA h : is_host_usable(selector, h, t)) IN
    IF usable = <<>> THEN <<>> ELSE <<usable[1]>>
\* HostSelector::select of RTTBasedHostSelector: the first of the usable hosts of
\* minimal rtt, as Iterator::min_by returns it.
select(selector, hosts, t) ==
    LET usable == SelectSeq(hosts, LAMBDA h : is_host_usable(selector, h, t)) IN
    IF usable = <<>> THEN <<>>
    ELSE LET i == CHOOSE i \in DOMAIN usable :
                     \A j \in DOMAIN usable :
                         /\ get_rtt(selector, usable[i]) <= get_rtt(selector, usable[j])
                         /\ j < i => get_rtt(selector, usable[i]) < get_rtt(selector, usable[j])
         IN  <<usable[i]>>

\* ---- one RTTBasedHostSelector and the calls of the iterator on it ----
MaxSelCalls == 4
MaxSelTime == 90
SelHosts == {"1.1.1.1", "2.2.2.2"}
SelHostLists == {<<>>, <<"1.1.1.1">>, <<"2.2.2.2">>, <<"1.1.1.1", "2.2.2.2">>,
                 <<"2.2.2.2", "1.1.1.1">>}
SelSamples == {10, 11, 14}
SelRest == <<cache, delegation_point, marks, inserted>>

\* set_rtt(host, rtt): a reply of host took rtt.
SelSetRtt(host, rtt) ==
    /\ call.seq < MaxSelCalls
    /\ host_and_rtt' = set_rtt(host_and_rtt, host, rtt)
    /\ streak' = Put(streak, host, [count |-> 0, last |-> now])
    /\ call' = [op |-> "set_rtt", seq |-> call.seq + 1,
                arg |-> [host |-> host, sample |-> rtt,
                         previous |-> IF host \in DOMAIN host_and_rtt
                                      THEN <<host_and_rtt[host]>> ELSE <<>>],
                ret |-> <<>>]
    /\ UNCHANGED <<aggVars, frontVars, iterRest, SelRest, now>>

\* set_timeout(host, timeout): host did not reply within timeout.
SelSetTimeout(host, timeout) ==
    /\ call.seq < MaxSelCalls
    /\ host_and_rtt' = set_timeout(host_and_rtt, host, timeout, now)
    /\ streak' = Put(streak, host,
                     [count |-> IF host \in DOMAIN streak THEN streak[host].count + 1
                                ELSE 1,
                      last |-> now])
    /\ call' = [op |-> "set_timeout", seq |-> call.seq + 1,
                arg |-> [host |-> host, sample |-> timeout,
                         previous |-> IF host \in DOMAIN host_and_rtt
                                      THEN <<host_and_rtt[host]>> ELSE <<>>],
                ret |-> <<>>]
    /\ UNCHANGED <<aggVars, frontVars, iterRest, SelRest, now>>

\* select(hosts)
SelSelect(hosts) ==
    /\ call' = [op |-> "select", seq |-> call.seq,
                arg |-> [hosts |-> hosts, before |-> host_and_rtt],
                ret |-> select(host_and_rtt, hosts, now)]
    /\ UNCHANGED <<aggVars, frontVars, iterRest, SelRest, now, host_and_rtt, streak>>

\* Half of the sleep time passes.
SelTick ==
    /\ now + TIMECOUNT_SERVER_SLEEP_TIME \div 2 <= MaxSelTime
    /\ now' = now + TIMECOUNT_SERVER_SLEEP_TIME \div 2
    /\ call' = [op |-> "tick", seq |-> call.seq, arg |-> <<>>, ret |-> <<>>]
    /\ UNCHANGED <<aggVars, frontVars, iterRest, SelRest, host_and_rtt, streak>>

SelNext ==
    \/ \E host \in SelHosts, rtt \in SelSamples : SelSetRtt(host, rtt)
    \/ \E host \in SelHosts, timeout \in SelSamples : SelSetTimeout(host, timeout)
    \/ \E hosts \in SelHostLists : SelSelect(hosts)
    \/ SelTick

SpecSel == UnitInit /\ [][SelNext]_vars

\* ---- sanitize_and_classify_response on the responses of a server ----
MaxAnswerLen == 3
RECURSIVE SeqsUpTo(_, _)
SeqsUpTo(items, n) ==
    IF n = 0 THEN {<<>>}
    ELSE LET shorter == SeqsUpTo(items, n - 1) IN
         shorter \cup {Append(q, x) : q \in shorter, x \in items}

\* The rrsets a server may put into the answer to www.com.: in com. or not, an
\* address or an alias, the alias with one target or with two.
SanAnswerRRsets ==
    {RRset(WwwCom, "A", 2, <<RdA("93.184.216.34")>>),
     RRset(WwwCom, "CNAME", 2, <<RdName("CNAME", NsCom)>>),
     RRset(WwwCom, "CNAME", 2, <<RdName("CNAME", NsCom), RdName("CNAME", WebNet)>>),
     RRset(NsCom, "A", 2, <<RdA("192.5.6.30")>>),
     RRset(WebNet, "A", 2, <<RdA("93.184.216.34")>>)}
SanAuthorities ==
    {<<>>, <<NSRRset(Com, NsCom, 2)>>, <<SOARRset(Com, 2)>>, <<NSRRset(Net, NsNet, 2)>>,
     <<NSRRset(Com, NsCom, 2), NSRRset(Net, NsNet, 2)>>}
SanAdditionals ==
    {<<>>, <<Glue(NsCom, 2)>>, <<Glue(NsNet, 2), Glue(NsCom, 2)>>,
     <<NSRRset(Com, NsCom, 2)>>}
\* Responses to the question name typ; the last three are not responses to it.
SanResponses(name, typ) ==
    {[make_response(with_query(name, typ), rcode) EXCEPT
         !.aa = aa, !.answer = an, !.authority = au, !.additional = ad] :
        rcode \in {"NoError", "NXDomain", "ServFail"}, aa \in BOOLEAN,
        an \in SeqsUpTo(SanAnswerRRsets, MaxAnswerLen),
        au \in SanAuthorities, ad \in SanAdditionals}
    \cup {[with_query(name, typ) EXCEPT !.answer = <<RRset(WebNet, "A", 2, <<>>)>>],
          [make_response(with_query(name, typ), "NoError") EXCEPT !.opcode = "Notify"],
          [make_response(with_query(name, typ), "NoError") EXCEPT !.question = <<>>],
          make_response(with_query(NsCom, typ), "NoError")}

\* process_query_target hands the response of a server of zone to the sanitizer.
SanClassify(zone, name, typ, resp) ==
    /\ call' = [op |-> "sanitize", seq |-> call.seq,
                arg |-> [zone |-> zone, name |-> name, typ |-> typ, resp |-> resp],
                ret |-> sanitize_and_classify_response(zone, name, typ, resp)]
    /\ UNCHANGED <<aggVars, frontVars, iterRest, cache, now, delegation_point, marks, inserted,
                   host_and_rtt, streak>>

\* One response is classified in a run.
SanNext ==
    /\ call.op = "none"
    /\ \E zone \in {Root, Com}, typ \in {"A", "CNAME"} :
          \E resp \in SanResponses(WwwCom, typ) : SanClassify(zone, WwwCom, typ, resp)

SpecSan == UnitInit /\ [][SanNext]_vars

\* ---- forwarder.rs: one ForwarderManager and the delegation point it hands out ----
FwdZones == {Root, Com, WwwCom, Net}
FwdAddresses == {{}, {"1.1.1.1"}, {"3.3.3.3", "2.2.2.2"}}
FwdNames == {Root, Com, WwwCom, NsCom, WebNet}
\* ForwarderManager::new: the configurations, a set of addresses for some zones.
FwdConfigs ==
    UNION {[zones -> FwdAddresses] : zones \in SUBSET FwdZones}

\* The state after ForwarderManager::new(conf).
FwdInit ==
    /\ AggIdle
    /\ IterIdle
    /\ world \in {[NoWorld EXCEPT !.forwarders = forwarders] : forwarders \in FwdConfigs}
    /\ UnitIdle

\* get_delegation_point(name)
FwdGetDelegationPoint(name) ==
    /\ delegation_point = <<>>
    /\ call.op = "none"
    /\ \E found \in {forwarder_get_delegation_point(world.forwarders, name)} :
          /\ delegation_point' = found
          /\ call' = [op |-> "get_delegation_point", seq |-> call.seq,
                      arg |-> name, ret |-> found]
    /\ UNCHANGED <<aggVars, frontVars, iterRest, DpRest, marks>>

FwdNext ==
    \/ \E name \in FwdNames : FwdGetDelegationPoint(name)
    \/ \E host \in {"1.1.1.1", "2.2.2.2"} : DpMarkServerLame(host)
    \/ DpGetTarget
    \/ DpGetMissingServer

SpecFwd == FwdInit /\ [][FwdNext]_vars

\* ---- the nameserver client: NSClient of nsclient.rs ----
MaxNsCalls == 2
NsTargets == {"1.1.1.1", "2.2.2.2"}
\* rand::random::<u16>(), drawn from a few values
NsIds == {7, 8}
\* Seconds until a datagram comes back, below the deadline.
NsElapsed == {1, 2}
\* What happens to one attempt: the socket cannot be bound or connected, the send
\* fails, the receive fails, nothing comes back within the deadline, or a datagram
\* comes back that does not parse or that parses with some rcode.
NsOutcomes == {"bind_err", "connect_err", "send_err", "recv_err", "timeout", "garbage",
               "NoError", "ServFail", "FormErr"}
NsRequests == [question : {[name |-> WwwCom, typ |-> "A"]}, id : {4660}, edns : BOOLEAN]

\* NSClient::do_query: one attempt. The result, the datagram sent, the samples
\* reported to the host selector, the selector after them and the time taken.
do_query(request, target, outcome, elapsed, selector, t) ==
    CASE outcome \in {"bind_err", "connect_err"} ->
             [result |-> "Err:io", sent |-> <<>>, samples |-> <<>>,
              selector |-> selector, took |-> 0]
      [] outcome = "send_err" ->
             [result |-> "Err:io", sent |-> <<>>,
              samples |-> <<[op |-> "set_timeout", value |-> DEFAULT_RECV_TIMEOUT]>>,
              selector |-> set_timeout(selector, target, DEFAULT_RECV_TIMEOUT, t),
              took |-> 0]
      [] outcome = "recv_err" ->
             [result |-> "Err:io", sent |-> <<request>>,
              samples |-> <<[op |-> "set_timeout", value |-> DEFAULT_RECV_TIMEOUT]>>,
              selector |-> set_timeout(selector, target, DEFAULT_RECV_TIMEOUT, t),
              took |-> 0]
      [] outcome = "timeout" ->
             [result |-> "Err:elapsed", sent |-> <<request>>,
              samples |-> <<[op |-> "set_timeout", value |-> DEFAULT_RECV_TIMEOUT]>>,
              selector |-> set_timeout(selector, target, DEFAULT_RECV_TIMEOUT,
                                       t + DEFAULT_RECV_TIMEOUT),
              took |-> DEFAULT_RECV_TIMEOUT]
      [] OTHER ->
             [result |-> IF outcome = "garbage" THEN "Err:parse" ELSE "Ok:" \o outcome,
              sent |-> <<request>>,
              samples |-> <<[op |-> "set_rtt", value |-> elapsed]>>,
              selector |-> set_rtt(selector, target, elapsed),
              took |-> elapsed]

\* NSClient::query(request, target): the first attempt under a random id and, if its
\* reply has rcode FormErr, a second one under another random id, without EDNS.
NsQuery(request, target) ==
    /\ call.seq < MaxNsCalls
    /\ \E id1 \in NsIds, id2 \in NsIds, o1 \in NsOutcomes, o2 \in NsOutcomes,
          e1 \in NsElapsed, e2 \in NsElapsed :
          LET first == do_query([request EXCEPT !.id = id1], target, o1, e1,
                                host_and_rtt, now)
              second == do_query([request EXCEPT !.id = id2, !.edns = FALSE], target,
                                 o2, e2, first.selector, now + first.took)
              retried == first.result = "Ok:FormErr"
          IN  /\ ~retried => id2 = id1 /\ o2 = o1 /\ e2 = e1
              /\ host_and_rtt' = IF retried THEN second.selector ELSE first.selector
              /\ now' = now + first.took + (IF retried THEN second.took ELSE 0)
              /\ call' = [op |-> "query", seq |-> call.seq + 1,
                          arg |-> [request |-> request, target |-> target],
                          attempts |-> IF retried
                                       THEN <<[outcome |-> o1, elapsed |-> e1, run |-> first],
                                              [outcome |-> o2, elapsed |-> e2, run |-> second]>>
                                       ELSE <<[outcome |-> o1, elapsed |-> e1, run |-> first]>>,
                          ret |-> IF retried THEN second.result ELSE first.result]
    /\ UNCHANGED <<aggVars, frontVars, iterRest, cache, delegation_point, marks, inserted, streak>>

NsNext == \E request \in NsRequests, target \in NsTargets : NsQuery(request, target)

SpecNs == UnitInit /\ [][NsNext]_vars

FromCacheNext ==
    \/ \E m \in ReferralMessages : CacheAddRRsets(m)
    \/ \E qname \in CacheNames : CacheFromCache(qname)
    \/ CacheTick

SpecFromCache == UnitInit /\ [][FromCacheNext]_vars

(***************************************************************************)
(* Part IV.  Two resolutions of one question that share the aggregate      *)
(* client and the cache. events holds the event of each resolution, final  *)
(* the response of each; caller r of the aggregate client is resolution r. *)
(* The hierarchy is root -> com. -> www.com., every referral carries its   *)
(* glue and every server replies, so that no resolution needs a sub-event. *)
(***************************************************************************)
MergeResolvers == {1, 2}
MergeQuestion == [name |-> WwwCom, typ |-> "A"]

\* The zone that the server at an address serves, and how it replies to the
\* question: the root and com. refer downwards, www.com. answers.
MergeZoneOf(host) ==
    IF host = "198.41.0.4" THEN Root ELSE IF host = "192.5.6.30" THEN Com ELSE WwwCom
MergeKind(host) ==
    IF MergeZoneOf(host) = Root THEN "referral"
    ELSE IF MergeZoneOf(host) = Com THEN "referral_down" ELSE "answer"

\* The cache after the root has been primed: the root NS rrset and its glue.
PrimedCache ==
    add_response(EmptyCache,
                 [make_response(with_query(Root, "NS"), "NoError") EXCEPT
                     !.aa = TRUE,
                     !.answer = <<NSRRset(Root, ARoot, 9)>>,
                     !.additional = <<ARRset(ARoot, 9)>>],
                 0).cache

MergeInit ==
    /\ inflight_queries = <<>>
    /\ otherInflight = 0
    /\ waiting_queries = 0
    /\ chan = [c \in Callers |-> ClosedChannel]
    /\ aggPc = [c \in Callers |-> "start"]
    /\ aggReq = [c \in Callers |-> NoReq]
    /\ aggRx = [c \in Callers |-> 0]
    /\ aggSeen = [c \in Callers |-> 0]
    /\ aggResp = [c \in Callers |-> NoValue]
    /\ aggResult = [c \in Callers |-> NoValue]
    /\ query_count = [q \in {MergeQuestion} |-> 0]
    /\ events = [r \in MergeResolvers |->
                    IterEvent_new(ClientRequest(MergeQuestion), "InitQuery", "Finished", 0)]
    /\ cache = PrimedCache
    /\ now = 0
    /\ iterPhase = "run"
    /\ final = [r \in MergeResolvers |-> <<>>]
    /\ world \in {World({"answer"}, {"referral"}, {"referral_down", "answer"}, {0}, ttl,
                        -1, 1) : ttl \in {0, 5}}
    /\ round = 0
    /\ sent = 0
    /\ probe = NoProbe
    /\ referral_steps = 0
    /\ exceeded = {}
    /\ learned = [k \in ClientKeys |-> <<>>]
    /\ expect = "-"
    /\ UnitIdle

mergeRest == <<now, iterPhase, world, round, sent, probe, referral_steps, exceeded,
               learned, expect>>

\* process_init_query of resolution r: the budgets, lookup_cache and
\* find_delegation_point. The primed cache always yields a delegation point.
MergeInitQuery(r) ==
    /\ events[r].state = "InitQuery"
    /\ LET event == events[r]
           request == get_request(event)
           lookup == gen_response(cache, request, now)
           cname == gen_cname_response(lookup.cache, request, now)
           dp == find_delegation_point(world.forwarders, request.question[1].name,
                                       lookup.cache, now)
       IN  IF RestartExceeded(event)
           THEN /\ events' = [events EXCEPT ![r] = error_response(event)]
                /\ cache' = cache
           ELSE /\ lookup.response # <<>> \/ cname # <<>> \/ dp # <<>>
                /\ cache' = lookup.cache
                /\ events' = [events EXCEPT ![r] =
                     IF lookup.response # <<>>
                     THEN [set_response(event, lookup.response[1], "Answer")
                              EXCEPT !.state = event.final_state, !.cache_hit = TRUE]
                     ELSE IF cname # <<>>
                     THEN [set_response(event, cname[1], "CName")
                              EXCEPT !.state = "QueryResponse"]
                     ELSE [event EXCEPT !.delegation_point = dp,
                                        !.state = "QueryTarget"]]
    /\ UNCHANGED <<final, mergeRest>>
    /\ UNCHANGED <<aggVars, unitVars>>

\* The request that resolution r hands to the aggregate client with the host it
\* selected.
MergeRequest(r, host) ==
    [question |-> [name |-> get_request(events[r]).question[1].name,
                   typ |-> get_request(events[r]).question[1].typ],
     target |-> host]

\* process_query_target, lines 170-175: resolution r selects a host of its
\* delegation point and calls query() of the aggregate client, which registers it
\* as the leader of the key or merges it into the query in flight. A channel is
\* used again only once the waiters of its previous query have read it. Two
\* resolutions never spend the budgets of line 165, which stay a guard here.
MergeQueryTarget(r, host) ==
    /\ events[r].state = "QueryTarget"
    /\ ~QueryBudgetExceeded(events[r])
    /\ host \in SelectableHosts(events[r].delegation_point[1])
    /\ \A w \in MergeResolvers : aggRx[w] = r => aggPc[w] \notin {"merged", "waiting"}
    /\ \/ AggEnterOccupied(r, MergeRequest(r, host))
       \/ AggEnterVacant(r, MergeRequest(r, host))

\* The underlying query of leader r returns: the server at its target replies. The
\* channel carries the reply by the name of its kind; both resolutions ask the same
\* question, so the kind determines the message.
MergeUpstream(r) ==
    /\ aggPc[r] = "querying"
    /\ AggLeaderRemove(r, MergeKind(aggReq[r].target))

\* process_query_target, lines 176-221: query() has returned a response to
\* resolution r, which sanitizes and classifies it under the zone of its own
\* delegation point, caches it, and goes to QueryResponse or marks the host lame.
MergeQueryReply(r, host) ==
    /\ events[r].state = "QueryTarget"
    /\ aggPc[r] = "done"
    /\ host \in SelectableHosts(events[r].delegation_point[1])
    /\ \E sanitized \in {sanitize_and_classify_response(
                             events[r].delegation_point[1].zone,
                             get_request(events[r]).question[1].name,
                             get_request(events[r]).question[1].typ,
                             Reply(aggResult[r], get_request(events[r])))} :
       \E added \in {IF sanitized.ok
                         /\ sanitized.category \in {"Answer", "NXDomain", "NXRRset"}
                      THEN add_response(cache, sanitized.resp, now)
                      ELSE IF sanitized.ok /\ sanitized.category \in {"CName", "Referral"}
                      THEN add_rrset_in_response(cache, sanitized.resp, now)
                      ELSE [panic |-> FALSE, cache |-> cache]} :
       LET event == events[r]
           response_category == IF sanitized.ok THEN sanitized.category ELSE "ServerFail"
       IN  /\ ~added.panic
           /\ cache' = added.cache
           /\ events' = [events EXCEPT ![r] =
                IF response_category = "ServerFail"
                THEN [event EXCEPT !.delegation_point =
                         <<mark_server_lame(event.delegation_point[1], host)>>]
                ELSE [set_response(event, sanitized.resp, response_category)
                         EXCEPT !.state = "QueryResponse"]]
    /\ aggPc' = [aggPc EXCEPT ![r] = "start"]
    /\ aggRx' = [aggRx EXCEPT ![r] = 0]
    /\ aggResult' = [aggResult EXCEPT ![r] = NoValue]
    /\ aggResp' = [aggResp EXCEPT ![r] = NoValue]
    /\ UNCHANGED <<inflight_queries, otherInflight, waiting_queries, chan, aggReq,
                   aggSeen, query_count>>
    /\ UNCHANGED <<final, mergeRest, unitVars>>

\* process_query_response of resolution r.
MergeQueryResponse(r) ==
    /\ events[r].state = "QueryResponse"
    /\ LET event == events[r]
           response == event.response[1]
           taken == [event EXCEPT !.response = <<>>]
       IN  /\ event.category \in {"Answer", "NXDomain", "NXRRset", "Referral"}
           /\ events' = [events EXCEPT ![r] =
                IF event.category = "Referral"
                THEN [taken EXCEPT
                         !.referral_count = @ + 1,
                         !.delegation_point = <<from_referral_response(response)>>,
                         !.state = "QueryTarget"]
                ELSE [event EXCEPT !.state = event.final_state]]
    /\ UNCHANGED <<cache, final, mergeRest>>
    /\ UNCHANGED <<aggVars, unitVars>>

\* process_finished of resolution r, and do_resolve returning the response.
MergeFinished(r) ==
    /\ events[r].state = "Finished"
    /\ final[r] = <<>>
    /\ events[r].response # <<>>
    /\ ~has_cname_redirect(events[r])
    /\ final' = [final EXCEPT ![r] = <<generate_final_response(events[r])>>]
    /\ UNCHANGED <<events, cache, mergeRest>>
    /\ UNCHANGED <<aggVars, unitVars>>

MergeNext ==
    \/ \E r \in MergeResolvers : MergeInitQuery(r)
    \/ \E r \in MergeResolvers, host \in Hosts : MergeQueryTarget(r, host)
    \/ \E r \in MergeResolvers : MergeUpstream(r)
    \/ \E r \in MergeResolvers : AggWaiterCount(r)
    \/ \E r \in MergeResolvers : AggWaiterRecv(r)
    \/ \E r \in MergeResolvers : AggLeaderBroadcast(r)
    \/ \E r \in MergeResolvers, host \in Hosts : MergeQueryReply(r, host)
    \/ \E r \in MergeResolvers : MergeQueryResponse(r)
    \/ \E r \in MergeResolvers : MergeFinished(r)

SpecMerge == MergeInit /\ [][MergeNext]_vars

(***************************************************************************)
(* Part V.  Resolver::run: the UDP front end. The main thread reads         *)
(* datagrams and hands each to a worker in a buffer of that worker's pool;  *)
(* a worker parses the request, asks the authority and queues the rendered  *)
(* response; the sending thread writes it to the socket.                    *)
(***************************************************************************)
\* Bounds of the model. The number of worker threads depends on the machine
\* (cpus - 2, at least 1). The program's DEFAULT_REQUEST_QUEUE_LEN, 2048, is the
\* length of each pool and the capacity of each request queue; the response queue
\* holds that number for every worker.
MaxWorkers == 2
MaxQueueLen == 2
MaxDatagrams == 4

\* MessageBufPool::new. Slot i (from 0) is slots[i + 1]; a slot is <<>> when its
\* buffer is out. id tells the boxes of a pool apart.
MessageBufPool_new(pool_id, len) ==
    [pool_id |-> pool_id,
     slots |-> [i \in 1..len |->
                   <<[buf |-> [pool_id |-> pool_id, id |-> i - 1, len |-> 0],
                      next |-> i]>>],
     len |-> len,
     next |-> 0,
     poisoned |-> FALSE]

\* MessageBufPool::allocate. A panic under the lock poisons the pool's mutex.
allocate(pool) ==
    IF pool.next = pool.len THEN [buf |-> <<>>, pool |-> pool]
    ELSE LET prev == pool.slots[pool.next + 1] IN
         IF prev = <<>> THEN [buf |-> <<>>, pool |-> [pool EXCEPT !.poisoned = TRUE]]
         ELSE [buf |-> <<prev[1].buf>>,
               pool |-> [pool EXCEPT !.slots[pool.next + 1] = <<>>,
                                     !.next = prev[1].next]]

\* MessageBufPool::release
release(pool, buf) ==
    LET free == {i \in 0..(pool.len - 1) : pool.slots[i + 1] = <<>>} IN
    IF buf.pool_id # pool.pool_id \/ free = {} THEN [pool EXCEPT !.poisoned = TRUE]
    ELSE LET free_index == CHOOSE i \in free : \A j \in free : i <= j IN
         [pool EXCEPT !.slots[free_index + 1] =
                          <<[buf |-> [buf EXCEPT !.len = 0], next |-> pool.next]>>,
                      !.next = free_index]

worker_thread_count == Cardinality(DOMAIN pools)

\* Resolver::run, lines 31-52: the pools and the queues before any datagram.
FrontInit ==
    /\ AggIdle
    /\ IterIdle
    /\ world = NoWorld
    /\ ComponentsIdle
    /\ \E n \in 1..MaxWorkers :
          /\ pools = [i \in 0..(n - 1) |-> MessageBufPool_new(i, MaxQueueLen)]
          /\ senders = [i \in 0..(n - 1) |-> <<>>]
    /\ resp_queue = <<>>
    /\ handler_index = 0
    /\ received = 0
    /\ dropped = {}

\* Lines 103-126: the main thread offers a datagram to the workers in turn, from
\* handler_index on, until one takes it or every worker has been tried once.
RECURSIVE offer(_, _)
offer(st, retry_count) ==
    LET h == st.handler_index
        allocated == allocate(st.pools[h])
        queued == allocated.buf # <<>> /\ Len(st.senders[h]) < MaxQueueLen
        next == [pools |->
                    [st.pools EXCEPT ![h] =
                        IF allocated.buf = <<>> \/ queued THEN allocated.pool
                        ELSE release(allocated.pool, allocated.buf[1])],
                 senders |->
                    IF queued
                    THEN [st.senders EXCEPT ![h] =
                             Append(@, [allocated.buf[1] EXCEPT !.len = 1])]
                    ELSE st.senders,
                 handler_index |-> (h + 1) % Cardinality(DOMAIN st.pools)]
    IN  IF queued \/ retry_count + 1 = Cardinality(DOMAIN st.pools) THEN next
        ELSE offer(next, retry_count + 1)

Healthy == \A w \in DOMAIN pools : ~pools[w].poisoned

\* Lines 98-126: socket.recv_from returns a datagram.
FrontReceive ==
    /\ Healthy
    /\ received < MaxDatagrams
    /\ received' = received + 1
    /\ \E next \in {offer([pools |-> pools, senders |-> senders,
                           handler_index |-> handler_index], 0)} :
          /\ pools' = next.pools
          /\ senders' = next.senders
          /\ handler_index' = next.handler_index
    /\ UNCHANGED <<resp_queue, dropped>>
    /\ UNCHANGED <<aggVars, iterVars, call, delegation_point, marks, inserted,
                   host_and_rtt, streak>>

\* What becomes of a request in a worker: it does not parse, the authority has no
\* response, the response does not render, or the response is rendered.
FrontOutcomes == {"unparseable", "no_response", "to_wire_err", "rendered"}

\* Lines 73-93: worker w takes a buffer from its queue. The buffer is released when
\* the request does not parse or the response queue is full, it is queued when the
\* response is rendered, and it goes out of scope otherwise.
FrontWorker(w, outcome) ==
    /\ Healthy
    /\ senders[w] # <<>>
    /\ LET buf == Head(senders[w])
           full == Len(resp_queue) >= worker_thread_count * MaxQueueLen
       IN  /\ senders' = [senders EXCEPT ![w] = Tail(@)]
           /\ pools' = IF outcome = "unparseable" \/ (outcome = "rendered" /\ full)
                       THEN [pools EXCEPT ![w] = release(@, buf)]
                       ELSE pools
           /\ resp_queue' = IF outcome = "rendered" /\ ~full
                            THEN Append(resp_queue, buf)
                            ELSE resp_queue
           /\ dropped' = IF outcome \in {"no_response", "to_wire_err"}
                         THEN dropped \cup {buf}
                         ELSE dropped
    /\ UNCHANGED <<handler_index, received>>
    /\ UNCHANGED <<aggVars, iterVars, call, delegation_point, marks, inserted,
                   host_and_rtt, streak>>

\* Lines 55-64: the sending thread takes a response, writes it to the socket and
\* releases its buffer to the pool it names.
FrontSend ==
    /\ Healthy
    /\ resp_queue # <<>>
    /\ resp_queue' = Tail(resp_queue)
    /\ pools' = [pools EXCEPT ![Head(resp_queue).pool_id] = release(@, Head(resp_queue))]
    /\ UNCHANGED <<senders, handler_index, received, dropped>>
    /\ UNCHANGED <<aggVars, iterVars, call, delegation_point, marks, inserted,
                   host_and_rtt, streak>>

FrontWork == \E w \in DOMAIN pools, outcome \in FrontOutcomes : FrontWorker(w, outcome)

FrontNext ==
    \/ FrontReceive
    \/ FrontWork
    \/ FrontSend

\* The worker threads and the sending thread loop on their queues for ever.
SpecFront == FrontInit /\ [][FrontNext]_vars /\ WF_vars(FrontWork) /\ WF_vars(FrontSend)

\* The callers that led a query for question q, and those that were merged into one.
AggLeaders(q) ==
    {c \in Callers : aggReq[c].question = q /\ aggRx[c] = 0
                      /\ aggPc[c] \in {"querying", "publish", "done"}
                      /\ aggResult[c] # "Err:too many outgoing quires"}
AggInFlight(q) ==
    {c \in AggLeaders(q) : aggPc[c] = "querying"}
AggMerged == {c \in Callers : aggRx[c] # 0}

\* C1: single-flight. While a key is in flight exactly one caller leads it, every
\* other caller of that key is merged into the leader's channel; the underlying
\* client sees one query per leader and none from a merged caller; and a merged
\* caller returns exactly what its leader's underlying query returned, the reply or
\* the error.
C1_SingleFlight ==
    /\ \A q \in AggQuestions :
         /\ Cardinality(AggInFlight(q)) <= 1
         /\ (<<q.name, q.typ>> \in DOMAIN inflight_queries) = (AggInFlight(q) # {})
         /\ query_count[q] = Cardinality(AggLeaders(q))
    /\ \A c \in AggMerged :
         /\ aggReq[c].question = aggReq[aggRx[c]].question
         /\ aggPc[c] = "done" =>
               /\ aggResult[c] = aggResp[aggRx[c]]
               /\ aggResult[c] \in UpstreamOutcomes
               /\ aggResult[aggRx[c]] \in {NoValue, aggResult[c]}

\* C1 witness: every caller asked the same question while the first was in flight,
\* one underlying query was issued and all got the same reply.
C1_Witness ==
    /\ \A c \in Callers : aggPc[c] = "done" /\ aggResult[c] = "Ok:reply"
    /\ Cardinality(AggMerged) = MaxCallers - 1
    /\ \E q \in AggQuestions : query_count[q] = 1 /\ \A c \in Callers : aggReq[c].question = q

\* C2: resolve never fails and never panics, whatever the nameservers reply: a
\* resolution never ends in a panic, it returns a response, and the response of a
\* failed resolution has rcode ServFail, the original question and the original
\* transaction id.
C2_AlwaysResponds ==
    /\ iterPhase # "panic"
    /\ iterPhase = "done" =>
          /\ final # <<>>
          /\ events[1].category = "ServerFail" =>
                /\ final[1].rcode = "ServFail"
                /\ final[1].question = events[1].original_request.question
                /\ final[1].question[1] \in world.questions
                /\ final[1].id = ClientRequest(final[1].question[1]).id

\* C3: termination. A resolution that has started and has not returned its response
\* can always take a further step: it never gets stuck short of Finished.
C3_Terminates == iterPhase \notin {"idle", "done"} => ENABLED IterNext

\* C4: the depth of every event of the chain, the current one included, is at most
\* MAX_DEPENDENT_QUERY_COUNT.
C4_DepthBound ==
    \A i \in DOMAIN events : get_depth(events, i) <= MAX_DEPENDENT_QUERY_COUNT

\* An event that has spent a budget is about to fail in the given state, or has
\* failed with ServFail.
Failing(i, state) ==
    \/ i = 1 /\ events[i].state = state
    \/ /\ events[i].state = events[i].final_state
       /\ events[i].category = "ServerFail"

\* C5 (amended): no event performs more than MAX_CNAME_REDIRECT_COUNT + 1 CNAME
\* restarts; no upstream query is sent by an event that has performed more than
\* MAX_CNAME_REDIRECT_COUNT; and such an event fails with ServFail the next time it
\* enters InitQuery.
C5_RestartBound ==
    /\ probe.query_restart_count <= MAX_CNAME_REDIRECT_COUNT
    /\ \A i \in DOMAIN events :
          /\ events[i].query_restart_count <= MAX_CNAME_REDIRECT_COUNT + 1
          /\ events[i].query_restart_count > MAX_CNAME_REDIRECT_COUNT =>
                Failing(i, "InitQuery")

\* C5 witness: a resolution that performed MAX_CNAME_REDIRECT_COUNT + 1 restarts
\* and returned ServFail.
C5_Witness ==
    /\ iterPhase = "done"
    /\ events[1].query_restart_count = MAX_CNAME_REDIRECT_COUNT + 1
    /\ final[1].rcode = "ServFail"

\* C5 as claimed: query_restart_count is at most MAX_CNAME_REDIRECT_COUNT.
C5_Original ==
    \A i \in DOMAIN events : events[i].query_restart_count <= MAX_CNAME_REDIRECT_COUNT

\* C6 (amended): the referral budget is per event. No event's referral_count exceeds
\* MAX_REFERRAL_COUNT + 1; no upstream query is sent by an event whose count exceeds
\* MAX_REFERRAL_COUNT; and such an event fails with ServFail the next time it enters
\* QueryTarget.
C6_ReferralBound ==
    /\ probe.referral_count <= MAX_REFERRAL_COUNT
    /\ \A i \in DOMAIN events :
          /\ events[i].referral_count <= MAX_REFERRAL_COUNT + 1
          /\ events[i].referral_count > MAX_REFERRAL_COUNT => Failing(i, "QueryTarget")

\* C6 witness: a resolution whose event took MAX_REFERRAL_COUNT + 1 referrals, sent
\* its last query after MAX_REFERRAL_COUNT of them and returned ServFail.
C6_Witness ==
    /\ iterPhase = "done"
    /\ events[1].referral_count = MAX_REFERRAL_COUNT + 1
    /\ probe.referral_count = MAX_REFERRAL_COUNT
    /\ final[1].rcode = "ServFail"

\* C6 as claimed: over all the events of a resolution at most MAX_REFERRAL_COUNT
\* referral steps are taken, and no event's referral_count exceeds it.
C6_Original ==
    /\ referral_steps <= MAX_REFERRAL_COUNT
    /\ \A i \in DOMAIN events : events[i].referral_count <= MAX_REFERRAL_COUNT

\* C7 (amended): no event's error_count exceeds MAX_ERROR_COUNT + 1; no upstream
\* query is sent by an event whose count exceeds MAX_ERROR_COUNT; and such an event
\* fails with ServFail the next time it enters QueryTarget.
C7_ErrorBound ==
    /\ probe.error_count <= MAX_ERROR_COUNT
    /\ \A i \in DOMAIN events :
          /\ events[i].error_count <= MAX_ERROR_COUNT + 1
          /\ events[i].error_count > MAX_ERROR_COUNT => Failing(i, "QueryTarget")

\* C7 witness: an event that sent a query after MAX_ERROR_COUNT errors, got one
\* more error and failed with ServFail.
C7_Witness ==
    /\ probe.error_count = MAX_ERROR_COUNT
    /\ \E i \in DOMAIN events :
          /\ events[i].error_count = MAX_ERROR_COUNT + 1
          /\ events[i].category = "ServerFail"

\* C7 as claimed: error_count is at most MAX_ERROR_COUNT, and an event that has seen
\* MAX_ERROR_COUNT errors sends no further query.
C7_Original ==
    /\ probe.error_count < MAX_ERROR_COUNT
    /\ \A i \in DOMAIN events : events[i].error_count <= MAX_ERROR_COUNT

\* C8: when some event of a resolution exceeded a budget (CNAME restarts, referrals,
\* errors, depth, wall-clock), the response of the resolution has rcode ServFail.
C8_BudgetServFail ==
    iterPhase = "done" /\ exceeded # {} => final[1].rcode = "ServFail"

\* C9: with every round trip within DEFAULT_RECV_TIMEOUT, a resolution returns
\* within ITERATOR_TIMEOUT of the creation of its root event, give or take one
\* round trip.
C9_WallClock ==
    iterPhase = "done" =>
        now - events[1].start_time <= ITERATOR_TIMEOUT + DEFAULT_RECV_TIMEOUT

\* C10: a resolution of a question whose Answer, NXDomain or NXRRset reply was
\* obtained from upstream less than the reply's minimum TTL ago finishes from the
\* cache in InitQuery without an upstream query; one that starts later queries
\* upstream again.
C10_CacheServes ==
    iterPhase = "done" =>
        /\ expect = "hit" => sent = 0 /\ events[1].cache_hit
        /\ expect = "miss" => sent > 0

\* C11: add_response(m) completes, and from then until the minimum TTL of the
\* rrsets of m has elapsed gen_response for the question of m returns a response.
C11_AddThenGet ==
    /\ call.op # "panic"
    /\ call.op = "gen_response" /\ call.arg \in DOMAIN inserted /\ now < inserted[call.arg]
          => call.ret # <<>>

\* The trust order as the claim gives it, lowest first.
ClaimedTrustOrder ==
    <<"AdditionalWithoutAA", "AuthorityWithoutAA", "AdditionalWithAA",
      "NonAuthAnswerWithAA", "AnswerWithoutAA", "PrimGlue", "AuthorityWithAA",
      "AnswerWithAA", "PrimNonGlue">>
ClaimedRank(level) == CHOOSE i \in DOMAIN ClaimedTrustOrder : ClaimedTrustOrder[i] = level

\* The rrset cache yields to add(r, L): nothing is cached under the key of r, or what
\* is cached has expired, or L is at least its trust level in the claimed order.
Yields ==
    \/ call.arg.previous = <<>>
    \/ call.arg.previous[1].expire <= now
    \/ ClaimedRank(call.arg.trust_level) >= ClaimedRank(call.arg.previous[1].trust_level)

C13_LameNeverTargeted ==
    call.op = "get_target" =>
        LET dp == delegation_point[1]
            addresses == UNION {dp.server_and_hosts[n] : n \in DOMAIN dp.server_and_hosts}
        IN  /\ call.ret # <<>> => call.ret[1] \notin marks.lame /\ call.ret[1] \in addresses
            /\ addresses \subseteq marks.lame => call.ret = <<>>

\* C13 witness: one of two addresses of the dp is marked lame and get_target
\* returned the other one.
C13_Witness ==
    /\ call.op = "get_target"
    /\ call.ret # <<>>
    /\ marks.lame # {}
    /\ marks.lame \subseteq UNION {delegation_point[1].server_and_hosts[n] :
                                      n \in DOMAIN delegation_point[1].server_and_hosts}

\* C14: a name that get_missing_server returns is a server of the dp that has no
\* address, is neither the zone nor below it, and add_probed_server was never
\* called with it.
C14_MissingServer ==
    call.op = "get_missing_server" /\ call.ret # <<>> =>
        LET dp == delegation_point[1]
            n == call.ret[1]
        IN  /\ n \in DOMAIN dp.server_and_hosts
            /\ dp.server_and_hosts[n] = {}
            /\ n # dp.zone
            /\ ~(Len(dp.zone) <= Len(n) /\ SubSeq(n, 1, Len(dp.zone)) = dp.zone)
            /\ n \notin marks.probed

\* C14 witness: a server outside of the zone that has no address was probed, and
\* get_missing_server returned another one.
C14_Witness ==
    /\ call.op = "get_missing_server"
    /\ call.ret # <<>>
    /\ \E n \in marks.probed :
          /\ delegation_point[1].server_and_hosts[n] = {}
          /\ ~is_subdomain(n, delegation_point[1].zone)

\* The servers of the NS rrset cached for zone, if one is cached and has not expired.
CachedServers(zone) ==
    LET rrset_cache == cache.positive_cache.rrset_cache IN
    IF <<zone, "NS">> \in DOMAIN rrset_cache /\ rrset_cache[<<zone, "NS">>].expire > now
    THEN {rrset_cache[<<zone, "NS">>].rrset.rdatas[i].name :
             i \in DOMAIN rrset_cache[<<zone, "NS">>].rrset.rdatas}
    ELSE {}
\* The cached addresses of a server.
CachedAddresses(n) ==
    LET rrset_cache == cache.positive_cache.rrset_cache IN
    IF <<n, "A">> \in DOMAIN rrset_cache /\ rrset_cache[<<n, "A">>].expire > now
    THEN {rrset_cache[<<n, "A">>].rrset.rdatas[i].host :
             i \in DOMAIN rrset_cache[<<n, "A">>].rrset.rdatas}
    ELSE {}
\* A zone from_cache may stop at: one of its servers has a cached address, or lies
\* outside of the zone.
Serviceable(zone) ==
    \E n \in CachedServers(zone) :
        \/ CachedAddresses(n) # {}
        \/ ~(Len(zone) <= Len(n) /\ SubSeq(n, 1, Len(zone)) = zone)

\* C15: from_cache(qname) returns the dp of the deepest zone at or above qname whose
\* cached NS rrset has a server with a cached address or a server outside of the
\* zone, and nothing when there is no such zone; the dp has the servers of that NS
\* rrset with their cached addresses, and offers a target address or a missing server.
C15_FromCache ==
    call.op = "from_cache" =>
        LET zones == {z \in {SubSeq(call.arg, 1, k) : k \in 0..Len(call.arg)} :
                         Serviceable(z)}
        IN  IF zones = {} THEN call.ret = <<>>
            ELSE /\ call.ret # <<>>
                 /\ \A z \in zones : Len(z) <= Len(call.ret[1].zone)
                 /\ call.ret[1].zone \in zones
                 /\ DOMAIN call.ret[1].server_and_hosts = CachedServers(call.ret[1].zone)
                 /\ \A n \in CachedServers(call.ret[1].zone) :
                       call.ret[1].server_and_hosts[n] = CachedAddresses(n)
                 /\ \/ \E n \in CachedServers(call.ret[1].zone) : CachedAddresses(n) # {}
                    \/ \E n \in CachedServers(call.ret[1].zone) :
                          /\ call.ret[1].server_and_hosts[n] = {}
                          /\ ~is_subdomain(n, call.ret[1].zone)
                          /\ n \notin call.ret[1].probed_server
                 /\ call.ret[1].lame_host = {}

\* C15 witness: the NS rrset of com. is cached, its only server lies in com. and has
\* no cached address, and from_cache(www.com.) returned the dp of the root zone.
C15_Witness ==
    /\ call.op = "from_cache"
    /\ call.arg = WwwCom
    /\ CachedServers(Com) = {NsCom}
    /\ CachedAddresses(NsCom) = {}
    /\ call.ret # <<>>
    /\ call.ret[1].zone = Root

\* The hosts of a list that are usable: no state is recorded for them, or no wake-up
\* time, or the wake-up time has passed.
UsableOf(hosts) ==
    {hosts[i] : i \in {j \in DOMAIN hosts :
        \/ hosts[j] \notin DOMAIN host_and_rtt
        \/ host_and_rtt[hosts[j]].wakeup_time = <<>>
        \/ now > host_and_rtt[hosts[j]].wakeup_time[1]}}
\* The smoothed round-trip time of a host, zero for an unknown host.
SmoothedRtt(h) == IF h \in DOMAIN host_and_rtt THEN host_and_rtt[h].rtt ELSE 0

\* C16: select returns nothing exactly when no host of the list is usable (the list
\* may be empty), and otherwise a usable host of the list whose smoothed round-trip
\* time is minimal among the usable ones; it leaves the state of every host as it was.
C16_SelectMinimal ==
    call.op = "select" =>
        /\ call.ret = <<>> <=> UsableOf(call.arg.hosts) = {}
        /\ call.ret # <<>> =>
              /\ call.ret[1] \in UsableOf(call.arg.hosts)
              /\ \A h \in UsableOf(call.arg.hosts) : SmoothedRtt(call.ret[1]) <= SmoothedRtt(h)
        /\ host_and_rtt = call.arg.before

\* C16 witness: of two usable hosts with different round-trip times the second of
\* the list was selected.
C16_Witness ==
    /\ call.op = "select"
    /\ Len(call.arg.hosts) = 2
    /\ UsableOf(call.arg.hosts) = SelHosts
    /\ call.ret = <<call.arg.hosts[2]>>
    /\ SmoothedRtt(call.arg.hosts[1]) > SmoothedRtt(call.arg.hosts[2])

\* C17: while the last three or more calls for h were timeouts and no more than
\* the sleep time has passed since the latest of them, select([h]) returns nothing;
\* with fewer timeouts since the latest set_rtt(h), select([h]) returns h.
C17_SleepAfterTimeouts ==
    call.op = "select" /\ Len(call.arg.hosts) = 1 =>
        LET h == call.arg.hosts[1]
            timeouts == IF h \in DOMAIN streak THEN streak[h].count ELSE 0
        IN  /\ timeouts >= 3 /\ now <= streak[h].last + 60 => call.ret = <<>>
            /\ timeouts < 3 => call.ret = <<h>>

\* C17 witness: the last three calls for h were timeouts, and select([h]) returned
\* nothing thirty seconds or more after the third.
C17_Witness ==
    /\ call.op = "select"
    /\ Len(call.arg.hosts) = 1
    /\ call.arg.hosts[1] \in DOMAIN streak
    /\ streak[call.arg.hosts[1]].count = 3
    /\ now > streak[call.arg.hosts[1]].last
    /\ call.ret = <<>>

\* C18 as stated: every sample of a success and of a counted timeout moves the
\* round-trip time to (7 * old + 3 * sample) / 10, old being zero for a host
\* without state; a timeout beyond the ceiling leaves it as it was.
C18_Original ==
    call.op \in {"set_rtt", "set_timeout"} =>
        LET old == IF call.arg.previous = <<>> THEN 0 ELSE call.arg.previous[1].rtt
            counted == \/ call.op = "set_rtt"
                       \/ call.arg.previous = <<>>
                       \/ call.arg.previous[1].timeout_count < 3
        IN  host_and_rtt[call.arg.host].rtt =
                IF counted THEN (7 * old + 3 * call.arg.sample) \div 10 ELSE old

\* C18, amended: the first sample of a host without state, success or timeout, is
\* taken as its round-trip time; every later success and every later timeout below
\* the ceiling moves it to (7 * old + 3 * sample) / 10; a timeout at the ceiling
\* leaves it as it was.
C18_Smoothing ==
    call.op \in {"set_rtt", "set_timeout"} =>
        host_and_rtt[call.arg.host].rtt =
            IF call.arg.previous = <<>> THEN call.arg.sample
            ELSE IF call.op = "set_rtt" \/ call.arg.previous[1].timeout_count < 3
                 THEN (7 * call.arg.previous[1].rtt + 3 * call.arg.sample) \div 10
                 ELSE call.arg.previous[1].rtt

\* C18 witness: a sample moved the round-trip time of a host with state, and the
\* division left a remainder.
C18_Witness ==
    /\ call.op \in {"set_rtt", "set_timeout"}
    /\ call.arg.previous # <<>>
    /\ host_and_rtt[call.arg.host].rtt # call.arg.previous[1].rtt
    /\ (7 * call.arg.previous[1].rtt + 3 * call.arg.sample) % 10 # 0

\* Every rrset of a section lies in zone.
InZone(rrsets, zone) ==
    \A i \in DOMAIN rrsets :
        Len(zone) <= Len(rrsets[i].name) /\ SubSeq(rrsets[i].name, 1, Len(zone)) = zone
\* left is what remains of rrsets after some of its members were taken out.
RECURSIVE Remains(_, _)
Remains(left, rrsets) ==
    IF left = <<>> THEN TRUE
    ELSE IF rrsets = <<>> THEN FALSE
    ELSE IF Head(left) = Head(rrsets) THEN Remains(Tail(left), Tail(rrsets))
    ELSE Remains(left, Tail(rrsets))

\* C19 as stated: whatever the response and the zone, after the call every rrset
\* of the three sections lies in the zone and was in the same section of the input.
C19_Original ==
    call.op = "sanitize" =>
        /\ InZone(call.ret.resp.answer, call.arg.zone)
        /\ InZone(call.ret.resp.authority, call.arg.zone)
        /\ InZone(call.ret.resp.additional, call.arg.zone)
        /\ Remains(call.ret.resp.answer, call.arg.resp.answer)
        /\ Remains(call.ret.resp.authority, call.arg.resp.authority)
        /\ Remains(call.ret.resp.additional, call.arg.resp.additional)

\* C19, amended: whatever the response and the zone, after the call each section
\* holds rrsets of the same section of the input, in their order; when the call
\* returns a category other than ServerFail, every rrset of the three sections lies
\* in the zone.
C19_Sanitized ==
    call.op = "sanitize" =>
        /\ Remains(call.ret.resp.answer, call.arg.resp.answer)
        /\ Remains(call.ret.resp.authority, call.arg.resp.authority)
        /\ Remains(call.ret.resp.additional, call.arg.resp.additional)
        /\ call.ret.ok /\ call.ret.category # "ServerFail" =>
              /\ InZone(call.ret.resp.answer, call.arg.zone)
              /\ InZone(call.ret.resp.authority, call.arg.zone)
              /\ InZone(call.ret.resp.additional, call.arg.zone)

\* C19 witness: a response was classified, and rrsets outside of the zone were
\* taken out of its answer and of its additional section.
C19_Witness ==
    /\ call.op = "sanitize"
    /\ call.ret.ok
    /\ call.ret.category = "Answer"
    /\ ~InZone(call.arg.resp.answer, call.arg.zone)
    /\ ~InZone(call.arg.resp.additional, call.arg.zone)
    /\ call.ret.resp.additional # <<>>

\* C20: after a successful classification that leaves an answer, the answer is a
\* chain: the first rrset is owned by the query name, each later one by the target
\* of the CNAME before it, every CNAME has one rdata, only the last rrset may be
\* something else than a CNAME; and the category is Answer if the last rrset has
\* the query type, CName if not.
C20_CnameChain ==
    call.op = "sanitize" /\ call.ret.ok /\ call.ret.category # "ServerFail"
                         /\ call.ret.resp.answer # <<>> =>
        LET answer == call.ret.resp.answer IN
        /\ answer[1].name = call.arg.name
        /\ \A i \in DOMAIN answer :
              /\ answer[i].typ = "CNAME" => Len(answer[i].rdatas) = 1
              /\ i > 1 => /\ answer[i - 1].typ = "CNAME"
                          /\ answer[i].name = answer[i - 1].rdatas[1].name
        /\ call.ret.category =
              IF answer[Len(answer)].typ = call.arg.typ THEN "Answer" ELSE "CName"

\* C21: the in-flight map never holds more than 1000 keys; a caller that enters
\* query() with a key in flight joins as a waiter, whatever the size of the map;
\* with a new key and 1000 keys in flight it fails, the map and the count of
\* underlying queries staying as they were; with a new key below that it leads.
C21_InflightCap ==
    [][/\ Cardinality(DOMAIN inflight_queries') + otherInflight' <= 1000
       /\ \A c \in Callers :
             aggPc[c] = "start" /\ aggPc'[c] # "start" =>
                IF Inflightkey(aggReq'[c]) \in DOMAIN inflight_queries
                THEN /\ aggPc'[c] = "merged"
                     /\ inflight_queries' = inflight_queries
                     /\ query_count' = query_count
                ELSE IF Cardinality(DOMAIN inflight_queries) + otherInflight >= 1000
                THEN /\ aggPc'[c] = "done"
                     /\ aggResult'[c] = "Err:too many outgoing quires"
                     /\ inflight_queries' = inflight_queries
                     /\ query_count' = query_count
                ELSE /\ aggPc'[c] = "querying"
                     /\ Inflightkey(aggReq'[c]) \in DOMAIN inflight_queries'
      ]_vars

\* C21 witness: 1000 keys are in flight, a caller with a new key has failed and
\* another caller has joined a key in flight as a waiter.
C21_Witness ==
    /\ Cardinality(DOMAIN inflight_queries) + otherInflight = 1000
    /\ \E c \in Callers : /\ aggResult[c] = "Err:too many outgoing quires"
                          /\ Inflightkey(aggReq[c]) \notin DOMAIN inflight_queries
    /\ \E c \in Callers : /\ aggPc[c] \in {"merged", "waiting"}
                          /\ Inflightkey(aggReq[c]) \in DOMAIN inflight_queries

\* The configured forward zones that are the name or an ancestor of it.
ForwardZonesOf(name) ==
    {z \in DOMAIN world.forwarders : Len(z) <= Len(name) /\ SubSeq(name, 1, Len(z)) = z}

\* C22: get_delegation_point(name) returns a dp exactly when a configured forward
\* zone is the name or an ancestor of it; the zone of the dp is the longest such
\* zone, its only server is the zone itself with exactly the addresses configured
\* for the zone; and get_missing_server on that dp returns nothing.
C22_ForwarderLongestSuffix ==
    /\ call.op = "get_delegation_point" =>
          /\ call.ret # <<>> <=> ForwardZonesOf(call.arg) # {}
          /\ call.ret # <<>> =>
                /\ call.ret[1].zone \in ForwardZonesOf(call.arg)
                /\ \A z \in ForwardZonesOf(call.arg) : Len(z) <= Len(call.ret[1].zone)
                /\ DOMAIN call.ret[1].server_and_hosts = {call.ret[1].zone}
                /\ call.ret[1].server_and_hosts[call.ret[1].zone]
                      = world.forwarders[call.ret[1].zone]
                /\ call.ret[1].lame_host = {} /\ call.ret[1].probed_server = {}
    /\ call.op = "get_missing_server" => call.ret = <<>>

\* C22 witness: two forward zones are at or above the name, the dp of the longer
\* one was handed out, and get_missing_server was called on it when all its
\* addresses were lame.
C22_Witness ==
    /\ call.op = "get_missing_server"
    /\ delegation_point # <<>>
    /\ delegation_point[1].zone = WwwCom
    /\ Com \in DOMAIN world.forwarders
    /\ delegation_point[1].server_and_hosts[WwwCom] # {}
    /\ delegation_point[1].server_and_hosts[WwwCom] \subseteq delegation_point[1].lame_host

\* The step of process_finished that hands the final response out.
Finishes == iterPhase = "run" /\ iterPhase' = "done"
\* The first rrset is owned by name and every later one by the target of the CNAME
\* before it.
ChainFrom(answer, name) ==
    answer # <<>> =>
        /\ answer[1].name = name
        /\ \A i \in 2..Len(answer) :
              /\ answer[i - 1].typ = "CNAME"
              /\ answer[i - 1].rdatas # <<>>
              /\ answer[i].name = answer[i - 1].rdatas[1].name
\* The question, the transaction id and the flags of a final response.
FinalHeader(response, event) ==
    /\ response.question = event.original_request.question
    /\ response.id = event.original_request.id
    /\ response.ra
    /\ ~response.aa

\* C23 as stated: the final response has the question and the id of the original
\* request, RA set and AA cleared; its answer is the prepend list followed by the
\* answer of the last response, a chain from the original name without an rrset
\* that occurs twice.
C23_Original ==
    [][Finishes =>
          /\ FinalHeader(final'[1], events[1])
          /\ final'[1].answer = events[1].prepend_rrsets \o events[1].response[1].answer
          /\ ChainFrom(final'[1].answer, events[1].original_request.question[1].name)
          /\ \A i, j \in DOMAIN final'[1].answer :
                i # j => final'[1].answer[i] # final'[1].answer[j]
      ]_vars

\* C23, amended: the final response has the question and the id of the original
\* request, RA set and AA cleared; unless its rcode is ServFail its answer is the
\* prepend list followed by the answer of the last response, and a chain from the
\* original name; with rcode ServFail its answer is that of the last response alone.
C23_FinalResponse ==
    [][Finishes =>
          /\ FinalHeader(final'[1], events[1])
          /\ final'[1].answer =
                IF final'[1].rcode # "ServFail"
                THEN events[1].prepend_rrsets \o events[1].response[1].answer
                ELSE events[1].response[1].answer
          /\ final'[1].rcode # "ServFail" =>
                ChainFrom(final'[1].answer, events[1].original_request.question[1].name)
      ]_vars

\* C23 witness: a resolution ended with NoError after two or more CNAME restarts,
\* and its final answer holds the aliases followed by an address.
C23_Witness ==
    /\ iterPhase = "done"
    /\ final # <<>>
    /\ final[1].rcode = "NoError"
    /\ events[1].query_restart_count >= 2
    /\ Len(final[1].answer) > Len(events[1].prepend_rrsets)
    /\ Len(events[1].prepend_rrsets) >= 2

\* The key of the original question of the event that finishes.
OriginalKey ==
    <<events[1].original_request.question[1].name,
      events[1].original_request.question[1].typ>>

InitQuerySources ==
    /\ iterPhase = "run"
    /\ events[1].state = "InitQuery"
    /\ events[1].query_restart_count <= 8
    /\ Len(events) - 1 <= 4
    /\ events' # events

\* The question InitQuery looks up: the rewritten one after a restart.
InitQuestion ==
    IF events[1].current_request # <<>> THEN events[1].current_request[1].question[1]
    ELSE events[1].original_request.question[1]

\* The cached zones at or above the name that from_cache may stop at.
ServiceableZonesOf(name) ==
    {z \in {SubSeq(name, 1, k) : k \in 0..Len(name)} : Serviceable(z)}

\* C25: InitQuery takes the first source that has something, in this order: the
\* message cache (the event jumps to its final state with the cached response), a
\* cached CNAME of the name (QueryResponse with category CName), the longest forward
\* zone at or above the name (QueryTarget on its dp), the deepest cached NS rrset
\* that from_cache can use (QueryTarget on its dp), and a priming sub-event for
\* (root, NS) on the root hints, from QueryTarget to PrimeResponse, on top of the
\* current event. No step of InitQuery sends an upstream query.
C25_InitQueryPriority ==
    [][InitQuerySources =>
          LET request == IF events[1].current_request # <<>>
                         THEN events[1].current_request[1]
                         ELSE events[1].original_request
              hit == gen_response(cache, request, now).response
              partial == gen_cname_response(cache, request, now)
              forward == ForwardZonesOf(InitQuestion.name)
              cached == ServiceableZonesOf(InitQuestion.name)
          IN  /\ sent' = sent
              /\ IF hit # <<>>
                 THEN /\ Len(events') = Len(events)
                      /\ events'[1].state = events[1].final_state
                      /\ events'[1].response = hit
                      /\ events'[1].category = "Answer"
                      /\ events'[1].cache_hit
                 ELSE IF partial # <<>>
                 THEN /\ Len(events') = Len(events)
                      /\ events'[1].state = "QueryResponse"
                      /\ events'[1].response = partial
                      /\ events'[1].category = "CName"
                 ELSE IF forward # {}
                 THEN /\ Len(events') = Len(events)
                      /\ events'[1].state = "QueryTarget"
                      /\ events'[1].delegation_point # <<>>
                      /\ events'[1].delegation_point[1].zone \in forward
                      /\ \A z \in forward : Len(z) <= Len(events'[1].delegation_point[1].zone)
                      /\ events'[1].delegation_point[1].server_and_hosts
                            = [n \in {events'[1].delegation_point[1].zone} |->
                                  world.forwarders[n]]
                 ELSE IF cached # {}
                 THEN /\ Len(events') = Len(events)
                      /\ events'[1].state = "QueryTarget"
                      /\ events'[1].delegation_point # <<>>
                      /\ events'[1].delegation_point[1].zone \in cached
                      /\ \A z \in cached : Len(z) <= Len(events'[1].delegation_point[1].zone)
                      /\ DOMAIN events'[1].delegation_point[1].server_and_hosts
                            = CachedServers(events'[1].delegation_point[1].zone)
                 ELSE /\ Len(events') = Len(events) + 1
                      /\ Tail(events') = events
                      /\ events'[1].original_request.question
                            = <<[name |-> <<>>, typ |-> "NS"]>>
                      /\ events'[1].state = "QueryTarget"
                      /\ events'[1].final_state = "PrimeResponse"
                      /\ events'[1].delegation_point # <<>>
                      /\ events'[1].delegation_point[1].zone = <<>>
                      /\ events'[1].delegation_point[1].server_and_hosts
                            = [n \in {<<"net", "root-servers", "a">>} |-> {"198.41.0.4"}]
      ]_vars

\* C25 witness: an event is in QueryTarget on the dp of the forward zone of its name
\* while the cache holds a delegation for the name that from_cache can use, and no
\* query has been sent to the forwarder's address yet.
C25_Witness ==
    /\ iterPhase = "run"
    /\ events[1].state = "QueryTarget"
    /\ events[1].delegation_point # <<>>
    /\ ForwardZonesOf(InitQuestion.name) # {}
    /\ events[1].delegation_point[1].zone \in DOMAIN world.forwarders
    /\ events[1].delegation_point[1].server_and_hosts
          = [n \in {events[1].delegation_point[1].zone} |-> world.forwarders[n]]
    /\ events[1].delegation_point[1].lame_host = {}
    /\ ServiceableZonesOf(InitQuestion.name) # {}

\* A step of QueryTarget that sent a query: probe' tells the host and the category.
Queries == iterPhase = "run" /\ sent' = sent + 1

\* C26: a reply that is classified ServerFail, by its rcode or because it fails
\* sanitization, marks the queried host lame on the dp of the event and changes
\* nothing else: the event stays in QueryTarget with its counters and the cache is
\* as it was. No query goes to a host that is lame on the dp of the event, and a dp
\* keeps its lame hosts as long as the event keeps the dp.
C26_LameOnServerFail ==
    [][/\ Queries =>
             /\ probe'.host \notin events[1].delegation_point[1].lame_host
             /\ probe'.category = "ServerFail" =>
                   /\ cache' = cache
                   /\ events' =
                         <<[events[1] EXCEPT !.delegation_point[1].lame_host =
                                                @ \cup {probe'.host}]>> \o Tail(events)
                   /\ events'[1].state = "QueryTarget"
                   /\ events'[1].error_count = events[1].error_count
                   /\ events'[1].referral_count = events[1].referral_count
       /\ /\ iterPhase = "run" /\ events[1].state = "QueryTarget"
          /\ Len(events') = Len(events) /\ events'[1].state = "QueryTarget"
          => events[1].delegation_point[1].lame_host
                \subseteq events'[1].delegation_point[1].lame_host
       /\ /\ iterPhase = "run" /\ events[1].state = "TargetResponse"
          /\ Len(events') = Len(events) - 1 /\ events'[1].state = "QueryTarget"
          => events[2].delegation_point[1].lame_host
                \subseteq events'[1].delegation_point[1].lame_host
      ]_vars

\* C26 witness: the first address of a dp was marked lame after a ServerFail reply,
\* and the next query of the event went to the other address of the dp, with the
\* counters of the event still at zero.
C26_Witness ==
    /\ iterPhase = "run"
    /\ events[1].delegation_point # <<>>
    /\ events[1].delegation_point[1].lame_host # {}
    /\ probe.host \notin events[1].delegation_point[1].lame_host
    /\ probe.host \in UNION {events[1].delegation_point[1].server_and_hosts[n] :
                                n \in DOMAIN events[1].delegation_point[1].server_and_hosts}
    /\ probe.category # "ServerFail"
    /\ sent = 2
    /\ events[1].error_count = 0 /\ events[1].referral_count = 0

\* The A addresses of an rrset.
AddressesOf(rrset) ==
    {rrset.rdatas[i].host : i \in {j \in DOMAIN rrset.rdatas : rrset.rdatas[j].kind = "A"}}

\* A step of QueryTarget, within the referral and error budgets, that finds no
\* address to query.
NothingToQuery ==
    /\ iterPhase = "run"
    /\ events[1].state = "QueryTarget"
    /\ events[1].referral_count <= 10 /\ events[1].error_count <= 5
    /\ events[1].delegation_point # <<>>
    /\ SelectableHosts(events[1].delegation_point[1]) = {}
    /\ events' # events

\* The servers of a dp that a sub-event may look up: no address, outside of the
\* zone, not probed.
Unresolved(dp) ==
    {n \in DOMAIN dp.server_and_hosts :
        /\ dp.server_and_hosts[n] = {}
        /\ ~(Len(dp.zone) <= Len(n) /\ SubSeq(n, 1, Len(dp.zone)) = dp.zone)
        /\ n \notin dp.probed_server}

\* C27: a QueryTarget step without a selectable address starts a sub-event for
\* (n, A), n a server of the dp without address, outside of the zone and not probed,
\* from InitQuery to TargetResponse on top of the current event; with no such server
\* the event goes to its final state with ServFail. The TargetResponse step of the
\* sub-event puts the parent back into QueryTarget with either the addresses of the
\* answer added to n or n marked probed, and the dp loses neither addresses nor
\* probed servers, so that n is not looked up again for this dp.
C27_MissingGlue ==
    [][/\ NothingToQuery =>
             LET dp == events[1].delegation_point[1] IN
             /\ sent' = sent
             /\ IF Unresolved(dp) # {}
                THEN /\ Len(events') = Len(events) + 1
                     /\ Tail(events') = events
                     /\ events'[1].original_request.question[1].typ = "A"
                     /\ events'[1].original_request.question[1].name \in Unresolved(dp)
                     /\ events'[1].state = "InitQuery"
                     /\ events'[1].final_state = "TargetResponse"
                     /\ events'[1].delegation_point = <<>>
                ELSE /\ Len(events') = Len(events)
                     /\ events'[1].state = events[1].final_state
                     /\ events'[1].response # <<>>
                     /\ events'[1].response[1].rcode = "ServFail"
       /\ (iterPhase = "run" /\ events[1].state = "TargetResponse") =>
             LET n == events[1].original_request.question[1].name
                 before == events[2].delegation_point[1]
                 after == events'[1].delegation_point[1]
                 answer == events[1].response[1].answer
             IN  /\ iterPhase' = "run"
                 /\ Len(events') = Len(events) - 1
                 /\ Tail(events') = Tail(Tail(events))
                 /\ events'[1].state = "QueryTarget"
                 /\ events'[1] = [events[2] EXCEPT !.state = "QueryTarget",
                                                   !.delegation_point = <<after>>]
                 /\ \/ /\ events[1].category = "Answer" /\ answer # <<>>
                       /\ answer[Len(answer)].typ = "A"
                       /\ after = [before EXCEPT !.server_and_hosts[n] =
                                       @ \cup AddressesOf(answer[Len(answer)])]
                       /\ after.server_and_hosts[n] # {}
                    \/ /\ ~(events[1].category = "Answer" /\ answer # <<>>
                            /\ answer[Len(answer)].typ = "A")
                       /\ after = [before EXCEPT !.probed_server = @ \cup {n}]
                 /\ Unresolved(after) = Unresolved(before) \ {n}
       /\ /\ iterPhase = "run" /\ events[1].state = "QueryTarget"
          /\ Len(events') = Len(events) /\ events'[1].state = "QueryTarget"
          => Unresolved(events'[1].delegation_point[1])
                \subseteq Unresolved(events[1].delegation_point[1])
      ]_vars

\* C27 witness: an event is back in QueryTarget with a server of its dp marked
\* probed: the sub-event for the address of that server came back without one.
C27_Witness ==
    /\ iterPhase = "run"
    /\ events[1].state = "QueryTarget"
    /\ events[1].delegation_point # <<>>
    /\ \E n \in events[1].delegation_point[1].probed_server :
          /\ n \in DOMAIN events[1].delegation_point[1].server_and_hosts
          /\ events[1].delegation_point[1].server_and_hosts[n] = {}

\* C28: the PrimeResponse step of a priming sub-event that finished with category
\* Answer, whatever the authority and additional sections of its response hold,
\* gives the parent the dp of the answer's NS rrset with the addresses of the
\* additional section and puts it into QueryTarget; with any other category the
\* parent gets a ServFail response and goes to its own final state.
C28_PrimeResponse ==
    [][(iterPhase = "run" /\ events[1].state = "PrimeResponse") =>
          LET response == events[1].response[1]
              ns == response.answer[1]
              servers == {ns.rdatas[i].name : i \in DOMAIN ns.rdatas}
              glue(n) == UNION {AddressesOf(response.additional[i]) :
                                   i \in {j \in DOMAIN response.additional :
                                             response.additional[j].name = n}}
          IN  /\ iterPhase' = "run"
              /\ Len(events') = Len(events) - 1
              /\ IF events[1].category = "Answer"
                 THEN events' =
                        <<[events[2] EXCEPT
                              !.state = "QueryTarget",
                              !.delegation_point =
                                  <<[zone |-> ns.name,
                                     server_and_hosts |-> [n \in servers |-> glue(n)],
                                     probed_server |-> {},
                                     lame_host |-> {}]>>]>> \o Tail(Tail(events))
                 ELSE /\ events'[1].state = events[2].final_state
                      /\ events'[1].response # <<>>
                      /\ events'[1].response[1].rcode = "ServFail"
                      /\ Tail(events') = Tail(Tail(events))
      ]_vars

\* The QueryResponse step of an event whose response has category CName.
CnameResponse ==
    /\ iterPhase = "run"
    /\ events[1].state = "QueryResponse"
    /\ events[1].category = "CName"

\* C29: an event in QueryResponse with category CName has an answer whose last
\* rrset is a CNAME, and the step appends the whole answer to the prepend list,
\* makes (target of that CNAME, query type of the original request) the current
\* question, adds one to the restart counter and goes to InitQuery; the original
\* request and everything else of the event stay as they were.
C29_CnameRestart ==
    [][CnameResponse =>
          LET answers == events[1].response[1].answer
              last == answers[Len(answers)]
          IN  /\ answers # <<>>
              /\ last.typ = "CNAME"
              /\ last.rdatas # <<>>
              /\ last.rdatas[1].kind = "CNAME"
              /\ iterPhase' = "run"
              /\ Len(events') = Len(events)
              /\ Tail(events') = Tail(events)
              /\ events'[1].current_request # <<>>
              /\ events'[1].current_request[1].question
                    = <<[name |-> last.rdatas[1].name,
                         typ |-> events[1].original_request.question[1].typ]>>
              /\ events'[1] =
                    [events[1] EXCEPT
                        !.prepend_rrsets = @ \o answers,
                        !.query_restart_count = @ + 1,
                        !.state = "InitQuery",
                        !.current_request = events'[1].current_request,
                        !.response = events'[1].response,
                        !.category = events'[1].category]
      ]_vars

\* C29 witness: the event of a request is back in InitQuery after its first restart
\* with the two CNAME rrsets of the response in its prepend list, the target of the
\* second one as the name of its current question, and its original question.
C29_Witness ==
    /\ iterPhase = "run"
    /\ events[1].state = "InitQuery"
    /\ events[1].query_restart_count = 1
    /\ Len(events[1].prepend_rrsets) = 2
    /\ events[1].prepend_rrsets[1].rdatas[1].name
          # events[1].prepend_rrsets[2].rdatas[1].name
    /\ events[1].current_request # <<>>
    /\ events[1].current_request[1].question[1].name
          = events[1].prepend_rrsets[Len(events[1].prepend_rrsets)].rdatas[1].name
    /\ events[1].current_request[1].question[1].typ
          = events[1].original_request.question[1].typ
    /\ events[1].original_request.question[1] \in world.questions

\* The QueryResponse step of an event whose response has category Referral.
ReferralResponse ==
    /\ iterPhase = "run"
    /\ events[1].state = "QueryResponse"
    /\ events[1].category = "Referral"

\* C30: the Referral step counts the referral on the event and puts the event into
\* QueryTarget on a fresh dp: its zone is the owner of the NS rrset of the referral,
\* its servers are the names of that rrset, and the addresses of a server are the A
\* records of the additional rrsets with its name, all of which lie in the zone that
\* was asked. A resolution of at most 11 upstream queries, all answered by a
\* referral but the last, which is answered by an answer, ends with rcode NoError
\* and with all its referrals, one less than its queries, counted on its event.
C30_ReferralChain ==
    [][/\ ReferralResponse =>
             LET response == events[1].response[1]
                 ns == response.authority[1]
                 servers == {ns.rdatas[i].name : i \in DOMAIN ns.rdatas}
                 glue(n) == UNION {AddressesOf(response.additional[i]) :
                                      i \in {j \in DOMAIN response.additional :
                                                response.additional[j].name = n}}
                 asked == events[1].delegation_point[1].zone
             IN  /\ ns.typ = "NS"
                 /\ \A i \in DOMAIN response.additional :
                       /\ Len(asked) <= Len(response.additional[i].name)
                       /\ SubSeq(response.additional[i].name, 1, Len(asked)) = asked
                 /\ iterPhase' = "run"
                 /\ Len(events') = Len(events)
                 /\ events'[1].state = "QueryTarget"
                 /\ events'[1].referral_count = events[1].referral_count + 1
                 /\ events'[1].delegation_point =
                       <<[zone |-> ns.name,
                          server_and_hosts |-> [n \in servers |-> glue(n)],
                          probed_server |-> {},
                          lame_host |-> {}]>>
       /\ (Finishes /\ sent <= 11 /\ sent = referral_steps + 1
             /\ probe.category = "Answer") =>
                /\ final'[1].rcode = "NoError"
                /\ events[1].referral_count = sent - 1
      ]_vars

\* C30 witness: a resolution has ended with NoError after ten referrals and eleven
\* upstream queries, on the dp of the last referral.
C30_Witness ==
    /\ iterPhase = "done"
    /\ final # <<>>
    /\ final[1].rcode = "NoError"
    /\ sent = 11
    /\ referral_steps = 10
    /\ events[1].referral_count = 10
    /\ events[1].delegation_point # <<>>
    /\ events[1].delegation_point[1].zone = <<"com", "www">>
    /\ events[1].delegation_point[1].lame_host = {}

(***************************************************************************)
(* C31..C40                                                                *)
(***************************************************************************)

\* The events of the chain: the current event and its base events.
ChainEvents == {events[i] : i \in DOMAIN events}

\* C31 as stated: every event owns exactly one current question, and the current
\* event owns a delegation point whenever it is in QueryTarget, QueryResponse or
\* Finished.
C31_Original ==
    /\ \A e \in ChainEvents : Len(get_request(e).question) = 1
    /\ events # <<>> /\ events[1].state \in {"QueryTarget", "QueryResponse", "Finished"}
         => events[1].delegation_point # <<>>

\* C31: every event owns exactly one current question; the current event owns a
\* delegation point whenever it is in QueryTarget, so that the expectation 'no dp set
\* in query target state' never fails; in QueryResponse it owns one unless its
\* response is a partial CNAME answer of the cache, and in Finished unless it was
\* answered from the cache or failed before it had found a delegation point.
C31_OwnsQuestionAndDp ==
    /\ \A e \in ChainEvents : Len(get_request(e).question) = 1
    /\ events # <<>> =>
         /\ events[1].state = "QueryTarget" => events[1].delegation_point # <<>>
         /\ events[1].state = "QueryResponse" /\ events[1].delegation_point = <<>>
              => events[1].category = "CName"
         /\ events[1].state = "Finished" /\ events[1].delegation_point = <<>>
              => events[1].cache_hit \/ events[1].category = "ServerFail"

\* C31 witness: a finished event that the cache answered and that never had a
\* delegation point, after a resolution that went through QueryTarget.
C31_Witness ==
    /\ iterPhase = "done"
    /\ round = 2
    /\ events[1].state = "Finished"
    /\ events[1].cache_hit
    /\ events[1].delegation_point = <<>>
    /\ Len(get_request(events[1]).question) = 1

\* The rrsets that a message entry refers to and that the rrset cache still yields.
Retrievable(entry, rrset_cache, t) ==
    {i \in DOMAIN entry.rrset_refs :
        get_rrset(rrset_cache, entry.rrset_refs[i][1], entry.rrset_refs[i][2], t) # <<>>}

\* The names and types of the rrsets of a response, section after section.
RefsOf(response) ==
    LET rrsets == response.answer \o response.authority \o response.additional IN
    [i \in DOMAIN rrsets |-> <<rrsets[i].name, rrsets[i].typ>>]

\* C32: gen_response for a question that has a message entry returns a response if
\* and only if the entry has not expired and every rrset it refers to is still in the
\* rrset cache; the response then has the recorded number of answer, authority and
\* additional rrsets, in the recorded order, and the entry stays; otherwise the call
\* is a miss and the entry is removed.
C32_AllOrNothing ==
    [][call'.op = "gen_response" /\ call'.arg \in DOMAIN cache.positive_cache.messages
       => LET entry == cache.positive_cache.messages[call'.arg]
              whole == /\ ~is_expired(entry, now)
                       /\ Retrievable(entry, cache.positive_cache.rrset_cache, now)
                             = DOMAIN entry.rrset_refs
          IN  /\ call'.ret # <<>> <=> whole
              /\ whole =>
                   /\ Len(call'.ret[1].answer) = entry.answer_rrset_count
                   /\ Len(call'.ret[1].authority) = entry.auth_rrset_count
                   /\ Len(call'.ret[1].additional) = entry.additional_rrset_count
                   /\ RefsOf(call'.ret[1]) = entry.rrset_refs
                   /\ call'.ret[1].rcode = entry.rcode
                   /\ cache'.positive_cache.messages = cache.positive_cache.messages
              /\ ~whole =>
                   /\ call'.arg \notin DOMAIN cache'.positive_cache.messages
                   /\ cache'.positive_cache.rrset_cache = cache.positive_cache.rrset_cache
      ]_vars

\* C32 witness: a miss that removed an entry whose message had not expired, one of
\* its rrsets being gone from the rrset cache while another one is still there.
C32_Witness ==
    /\ call.op = "gen_response"
    /\ call.entry # <<>>
    /\ ~is_expired(call.entry[1], now)
    /\ Retrievable(call.entry[1], cache.positive_cache.rrset_cache, now)
          \notin {{}, DOMAIN call.entry[1].rrset_refs}
    /\ call.ret = <<>>
    /\ call.arg \notin DOMAIN cache.positive_cache.messages

\* The callers that found their key in the map and took the leader's receiver.
AggWaiters == {c \in Callers : aggRx[c] # 0}

\* The callers that issued an underlying query.
AggQueriers ==
    {c \in Callers : aggRx[c] = 0 /\ aggPc[c] \in {"querying", "publish", "done"}
                     /\ aggResult[c] # "Err:too many outgoing quires"}

\* What a waiter is allowed: no query of its own, and no return before its leader
\* has published, with anything but the leader's outcome.
WaiterInherits ==
    /\ \A q \in AggQuestions :
          query_count[q] = Cardinality({c \in AggQueriers : aggReq[c].question = q})
    /\ \A c \in AggWaiters :
          /\ aggPc[c] \in {"merged", "waiting", "dropped", "done"}
          /\ aggPc[c] = "done" =>
                /\ aggPc[aggRx[c]] = "done"
                /\ chan[aggRx[c]].value = aggResp[aggRx[c]]
                /\ aggResult[c] = aggResp[aggRx[c]]
                /\ aggResult[c] \in UpstreamOutcomes
          /\ aggPc[c] # "done" => aggResult[c] = NoValue

\* The dropping of a waiter changes nothing but the waiter.
DropIsLocal ==
    \A c \in Callers :
        aggPc[c] = "waiting" /\ aggPc'[c] = "dropped" =>
            /\ \A d \in Callers \ {c} : aggPc'[d] = aggPc[d]
            /\ UNCHANGED <<inflight_queries, chan, aggResp, aggResult, query_count>>

\* The callers inside query(): leaders that have not returned and waiters that have
\* neither returned nor been dropped. A caller leaves the set only by returning or
\* by being dropped, and never comes back.
AggPending == {c \in Callers : aggPc[c] \in {"merged", "waiting", "querying", "publish"}}

\* C33: a waiter issues no underlying query and returns only once its leader has
\* published, with the leader's outcome, reply or error; dropping a waiter leaves
\* the leader and the other waiters as they are; and every caller inside query()
\* gets out of it: every leader returns, and every waiter that is not dropped
\* returns after its leader.
C33_WaitersInherit ==
    /\ []WaiterInherits
    /\ [][DropIsLocal]_vars
    /\ []<>(AggPending = {})

\* C33 witness: of two waiters on one leader whose query failed, one was dropped and
\* the other returned the leader's error after the leader had returned.
C33_Witness ==
    \E l \in Callers, w \in Callers, d \in Callers :
        /\ aggRx[w] = l /\ aggRx[d] = l
        /\ aggPc[d] = "dropped"
        /\ aggPc[l] = "done" /\ aggResp[l] = "Err:timeout"
        /\ aggPc[w] = "done" /\ aggResult[w] = "Err:timeout"

\* The sample that an attempt owes the host selector: the time the reply took, or
\* the deadline if the attempt ended in a timeout or an I/O error.
SampleOwed(attempt) ==
    IF attempt.outcome \in {"garbage", "NoError", "ServFail", "FormErr"}
    THEN [op |-> "set_rtt", value |-> attempt.elapsed]
    ELSE [op |-> "set_timeout", value |-> DEFAULT_RECV_TIMEOUT]

\* C34: a call of NSClient::query sends at most two datagrams; there is a second
\* attempt if and only if the first reply parses with rcode FormErr, its request is
\* the first one without EDNS and under a newly drawn id, and its outcome is what the
\* call returns; a first attempt that ends in a timeout or an I/O error is returned
\* as it is; and every attempt reports exactly one sample to the host selector, the
\* elapsed time on a reply and the deadline of 3 s on a timeout or an I/O error.
C34_QueryAttempts ==
    call.op = "query" =>
        LET attempts == call.attempts
            first == attempts[1].run
        IN  /\ Len(attempts) \in {1, 2}
            /\ \A i \in DOMAIN attempts : Len(attempts[i].run.sent) <= 1
            /\ Len(attempts) = 2 <=> attempts[1].outcome = "FormErr"
            /\ Len(attempts) = 2 =>
                  /\ first.sent # <<>>
                  /\ attempts[2].run.sent # <<>> =>
                        /\ ~attempts[2].run.sent[1].edns
                        /\ attempts[2].run.sent[1].id \in NsIds
                        /\ attempts[2].run.sent[1].question = call.arg.request.question
                  /\ call.ret = attempts[2].run.result
            /\ Len(attempts) = 1 => call.ret = first.result
            /\ first.result \in {"Err:io", "Err:elapsed"} => Len(attempts) = 1
            /\ \A i \in DOMAIN attempts :
                  attempts[i].run.samples = <<SampleOwed(attempts[i])>>


\* The resolutions that have returned their final response.
MergeDone == {r \in MergeResolvers : final[r] # <<>>}

\* What a resolution of the question produces when it runs alone: the address of
\* www.com. with rcode NoError.
SoloOutcome(response) ==
    /\ response.rcode = "NoError"
    /\ Len(response.answer) = 1
    /\ response.answer[1].name = WwwCom
    /\ response.answer[1].typ = "A"

\* C35: merging by (name, type) is transparent. Two resolutions of www.com. A that
\* run concurrently each end with the rcode and the answer of a resolution that
\* runs alone, the negative cache never holds an entry for the question, and no
\* host of a delegation point is marked lame.
C35_MergeTransparent ==
    /\ \A r \in MergeDone : SoloOutcome(final[r][1])
    /\ <<MergeQuestion.name, MergeQuestion.typ>> \notin DOMAIN cache.negative_cache.messages
    /\ \A r \in MergeResolvers :
          events[r].delegation_point # <<>> =>
              events[r].delegation_point[1].lame_host = {}


\* What resuming leaves as it was in the parent of a sub-event: its counters, its
\* prepend list, its requests and where it finishes.
ParentKept(event) ==
    <<event.query_restart_count, event.referral_count, event.error_count,
      event.prepend_rrsets, event.current_request, event.original_request,
      event.final_state, event.start_time>>

\* Only the last event of the chain finishes in Finished, only it is ever in that
\* state, and an event in PrimeResponse or TargetResponse has a parent.
RootFinishes ==
    /\ \A i \in DOMAIN events :
          /\ (events[i].final_state = "Finished") = (i = Len(events))
          /\ events[i].state = "Finished" => i = Len(events)
    /\ (events # <<>> /\ events[1].state \in {"PrimeResponse", "TargetResponse"}) =>
          Len(events) >= 2

\* A step that spawns a sub-event stores the spawning event as it is, and a step
\* that completes one resumes that event, with the rest of the chain untouched.
ResumesParent ==
    /\ (iterPhase = "run" /\ Len(events') = Len(events) + 1) =>
          /\ Tail(Tail(events')) = Tail(events)
          /\ ParentKept(events'[2]) = ParentKept(events[1])
          /\ events'[1].final_state \in {"PrimeResponse", "TargetResponse"}
    /\ (iterPhase = "run" /\ events # <<>>
            /\ events[1].state \in {"PrimeResponse", "TargetResponse"}
            /\ iterPhase' = "run") =>
          /\ Len(events') = Len(events) - 1
          /\ Tail(events') = Tail(Tail(events))
          /\ ParentKept(events'[1]) = ParentKept(events[2])

\* C36: only the root event of a resolution reaches Finished, every event processed
\* in PrimeResponse or TargetResponse has a parent, and completing a sub-event
\* resumes the event that spawned it with its counters, prepend list and current
\* question unchanged.
C36_SubEventsResume == []RootFinishes /\ [][ResumesParent]_vars

\* A parent is back in QueryTarget after a sub-event for one of its nameservers
\* has completed without an address.
C36_Witness ==
    /\ iterPhase = "run"
    /\ Len(events) = 1
    /\ events[1].state = "QueryTarget"
    /\ events[1].delegation_point # <<>>
    /\ events[1].delegation_point[1].probed_server # {}
    /\ events[1].referral_count > 0


\* The name that a target sub-event asks for.
ProbedName(event) == event.original_request.question[1].name

\* add_probed_server's assertion at the step that completes a target sub-event: the
\* sub-event has a parent with a delegation point, and its name is a server of it.
ProbeOfParent ==
    (iterPhase = "run" /\ events # <<>> /\ events[1].state = "TargetResponse") =>
        /\ Len(events) >= 2
        /\ events[2].delegation_point # <<>>
        /\ ProbedName(events[1]) \in DOMAIN events[2].delegation_point[1].server_and_hosts

\* While a sub-event runs its parent is stored as it was when it spawned it, the
\* sub-event keeps its original question, and a target sub-event is spawned for a
\* name that get_missing_server returns for the parent's delegation point.
ParentStored ==
    (iterPhase = "run" /\ iterPhase' = "run") =>
        /\ Len(events') = Len(events) =>
              /\ Tail(events') = Tail(events)
              /\ events'[1].original_request = events[1].original_request
        /\ Len(events') = Len(events) + 1 =>
              /\ Tail(events') = events
              /\ events'[1].final_state = "TargetResponse" =>
                    ProbedName(events'[1]) \in MissingServers(events[1].delegation_point[1])

\* C37: whenever process_target_response marks a nameserver as probed, that name is
\* a nameserver of the parent's delegation point: the parent's delegation point is
\* not replaced or modified between the spawning of a target sub-event and its
\* completion, and the sub-event's original question name is the name returned by
\* get_missing_server.
C37_ProbedIsServer == []ProbeOfParent /\ [][ParentStored]_vars

\* A nameserver without an address has been marked as probed in the delegation
\* point of some event of the chain.
C37_Witness ==
    /\ iterPhase = "run"
    /\ \E i \in DOMAIN events :
          /\ events[i].delegation_point # <<>>
          /\ \E n \in events[i].delegation_point[1].probed_server :
                events[i].delegation_point[1].server_and_hosts[n] = {}


\* The callers whose underlying query is outstanding, and those in the waiter's
\* loop of lines 103-118.
AggOutstanding == {c \in Callers : aggPc[c] = "querying"}
AggWaiting == {c \in Callers : aggPc[c] = "waiting"}

Outstanding(w) == {i \in 1..pools[w].len : pools[w].slots[i] = <<>>}

\* C39: every buffer allocated for a datagram is eventually released to its pool.
\* The buffers that are out never exceed the pool, and again and again every pool
\* holds all its buffers, so that no pool stays exhausted.
C39_BuffersReturn ==
    /\ [](\A w \in DOMAIN pools : Cardinality(Outstanding(w)) <= pools[w].len)
    /\ []<>(\A w \in DOMAIN pools : Outstanding(w) = {})


\* The TTLs of the rrsets of a message.
TtlsOf(m) ==
    LET rrsets == m.answer \o m.authority \o m.additional IN
    {rrsets[i].ttl : i \in DOMAIN rrsets}

\* The seconds from the construction of an entry to its expiry; -1 stands for
\* u32::MAX seconds, which is more than any TTL of the model.
Lifetime(entry, at) == IF entry.expire_time = -1 THEN -1 ELSE entry.expire_time - at
LifeWithin(life, bound) == life # -1 /\ life <= bound

\* C40: a message entry lives for the smallest TTL among the rrsets of the response
\* it was built from and never longer than the largest TTL present in it, an entry
\* built from a response without any rrset included; past that bound is_expired
\* holds, so that the entry is not served.
C40_EntryLifetime ==
    call.op \in {"new", "is_expired"} =>
        LET ttls == TtlsOf(call.arg)
            life == Lifetime(call.ret, call.at)
        IN  /\ \A ttl \in ttls : LifeWithin(life, ttl)
            /\ ttls # {} => life \in ttls
            /\ \E bound \in ttls \cup {0} : LifeWithin(life, bound)
            /\ (call.op = "is_expired" /\ \A ttl \in ttls : call.asked >= call.at + ttl) =>
                  call.expired
====
